---- MODULE Spec2Model ----
(***************************************************************************)
(* Reader pipeline of CNTK: ReaderShim -> FrameModePacker ->               *)
(* BaseTransformer chain -> BlockRandomizer -> deserializer.               *)
(*                                                                         *)
(* C++ vectors are functions over 0..n-1, so that indices read as in the   *)
(* source.  size_t is an unsigned integer of SizeBits bits.  The C library *)
(* generator behind ::srand / ::rand is a linear congruential generator    *)
(* whose multiplier and increment are picked when the process starts.      *)
(* Asserts are compiled out (NDEBUG), as in a release build.               *)
(***************************************************************************)
EXTENDS Integers, Sequences, FiniteSets, TLC

\* ------------------------------------------------------------------ bounds
MaxSequences == 3       \* sequences of the corpus, in any layout of chunks
MaxMbSize == 2          \* minibatch size the packer is built with
MaxWorkers == 2         \* numberOfWorkers of the job
MaxEpochIndex == 1      \* config.index
MaxTotalSize == 2       \* config.totalSize, when it is not requestDataSize
RandBits == 3           \* width of the values ::rand() returns
SizeBits == 16          \* width of size_t

SIZE_MOD == 2 ^ SizeBits
SIZE_MAX == SIZE_MOD - 1
requestDataSize == SIZE_MAX \div 4
RAND_MOD == 2 ^ RandBits
RAND_MAX == RAND_MOD - 1
NumTransformers == 3    \* crop -> scale -> mean
NumStreams == 2         \* features, labels
\* timelines a deserializer may hand to the constructor: their length, and
\* the largest id, chunk id and number of samples of a sequence
MaxTimeline == 2
MaxField == 2
MantissaBits == 5       \* width of the significand of a double
MtBits == 3             \* width of the values std::mt19937 returns
MaxDim == 7             \* rows and columns of a sample
MaxExponent == 3        \* crop ratios reach down to 2^-MaxExponent
MaxThreads == 2         \* threads of the parallel loop
MaxBatches == 2         \* batches pulled through a transformer
MaxElements == 2        \* elements of the sample layout of a stream
Indeterminate == 0 - 1  \* a member that no constructor initializes

\* ----------------------------------------------------------------- helpers
Size(v) == Cardinality(DOMAIN v)
Empty == [i \in {} |-> 0]
PushBack(v, x) == [i \in 0 .. Size(v) |-> IF i < Size(v) THEN v[i] ELSE x]
Swap(v, i, j) == [v EXCEPT ![i] = v[j], ![j] = v[i]]
Min(S) == CHOOSE x \in S : \A y \in S : x <= y
Max(S) == CHOOSE x \in S : \A y \in S : y <= x
\* size_t subtraction
USub(a, b) == (a - b) % SIZE_MOD

\* -------------------------------------------------------------- C library
\* srand that leaves the generator where it is
Srand_keep(libc, seed) == libc

\* ::srand(seed) of the C library
Srand(libc, seed) == [libc EXCEPT !.state = seed % RAND_MOD]

\* ::rand() of the C library: the generator steps and returns its state
LibcRand(libc) == [libc EXCEPT !.state = (libc.mul * libc.state + libc.inc) % RAND_MOD]

\* static inline size_t rand(begin, end); the caller makes sure begin # end
rand(libc, begin, end) ==
    LET l1 == LibcRand(libc)
        l2 == LibcRand(l1)
        randno == (l1.state * RAND_MAX) + l2.state
    IN  [libc |-> l2, val |-> begin + (randno % (end - begin))]

RECURSIVE randomShuffleLoop(_, _, _)
randomShuffleLoop(v, libc, i) ==
    IF i >= Size(v) THEN [v |-> v, libc |-> libc]
    ELSE LET r == rand(libc, 0, Size(v))
         IN  randomShuffleLoop(IF r.val = i THEN v ELSE Swap(v, i, r.val), r.libc, i + 1)

\* BlockRandomizer::randomShuffle(v, randomseed)
randomShuffle(v, libc, randomseed) ==
    randomShuffleLoop(v, Srand(libc, randomseed), 0)

\* ------------------------------------------------------------ the corpus
\* The timeline the deserializer hands out for chunks of the given sizes
\* (sizes is a sequence 1..numChunks): ids 0,1,2,..., one sample each.
RECURSIVE ChunkOfSequence(_, _, _)
ChunkOfSequence(sizes, id, k) ==
    IF id < sizes[k] THEN k - 1 ELSE ChunkOfSequence(sizes, id - sizes[k], k + 1)

RECURSIVE SumSizes(_, _)
SumSizes(sizes, k) == IF k = 0 THEN 0 ELSE sizes[k] + SumSizes(sizes, k - 1)

GetSequenceDescriptions(sizes) ==
    [i \in 0 .. SumSizes(sizes, Len(sizes)) - 1 |->
        [id |-> i, chunkId |-> ChunkOfSequence(sizes, i, 1), numberOfSamples |-> 1]]

\* samples of the timeline before sequence i
RECURSIVE SamplesBefore(_, _)
SamplesBefore(tl, i) == IF i = 0 THEN 0 ELSE tl[i - 1].numberOfSamples + SamplesBefore(tl, i - 1)

\* BlockRandomizer::BlockRandomizer
BlockRandomizer(randomizationRangeInSamples, tl) ==
    LET numSequences == tl[Size(tl) - 1].id + 1
        numChunks == tl[Size(tl) - 1].chunkId + 1
        numSamples == SamplesBefore(tl, Size(tl))
        info(k) ==
            [sequencePositionStart |->
                Min({SIZE_MAX} \cup {tl[i].id : i \in {x \in DOMAIN tl : tl[x].chunkId = k}}),
             samplePositionStart |->
                Min({SIZE_MAX} \cup {SamplesBefore(tl, i) : i \in {x \in DOMAIN tl : tl[x].chunkId = k}})]
    IN  [m_randomizationRangeInSamples |-> randomizationRangeInSamples,
         m_sweep |-> SIZE_MAX,
         m_sequencePositionInSweep |-> SIZE_MAX,
         m_samplePositionInEpoch |-> SIZE_MAX,
         m_epochSize |-> SIZE_MAX,
         m_sweepStartInSamples |-> Indeterminate,
         m_workerRank |-> Indeterminate,
         m_numberOfWorkers |-> Indeterminate,
         m_numSequences |-> numSequences,
         m_numChunks |-> numChunks,
         m_numSamples |-> numSamples,
         m_chunkInformation |->
            [k \in 0 .. numChunks |->
                IF k = numChunks
                THEN [sequencePositionStart |-> numSequences, samplePositionStart |-> numSamples]
                ELSE info(k)],
         m_frameMode |-> (Max({0} \cup {tl[i].numberOfSamples : i \in DOMAIN tl}) = 1),
         m_randomizedChunks |-> Empty,
         m_sequencePositionToChunkIndex |-> Empty,
         m_randomTimeline |-> Empty]

\* ------------------------------------------------------- RandomizeChunks
\* lines 83-101: the shuffled chunks laid on the timeline, and the sentinel
RECURSIVE PlaceChunks(_, _, _, _, _, _)
PlaceChunks(rz, indices, chunkId, samplePosition, sequencePosition, acc) ==
    IF chunkId >= rz.m_numChunks
    THEN PushBack(acc, [sequencePositionStart |-> sequencePosition,
                        samplePositionStart |-> samplePosition,
                        originalChunkIndex |-> SIZE_MAX,
                        windowbegin |-> Indeterminate, windowend |-> Indeterminate])
    ELSE LET originalChunkIndex == indices[chunkId]
             numSequences == rz.m_chunkInformation[originalChunkIndex + 1].sequencePositionStart
                             - rz.m_chunkInformation[originalChunkIndex].sequencePositionStart
             numSamples == rz.m_chunkInformation[originalChunkIndex + 1].samplePositionStart
                           - rz.m_chunkInformation[originalChunkIndex].samplePositionStart
         IN  PlaceChunks(rz, indices, chunkId + 1,
                         samplePosition + numSamples, sequencePosition + numSequences,
                         PushBack(acc, [sequencePositionStart |-> sequencePosition,
                                        samplePositionStart |-> samplePosition,
                                        originalChunkIndex |-> originalChunkIndex,
                                        windowbegin |-> Indeterminate,
                                        windowend |-> Indeterminate]))

\* line 119: while (... > halfWindowRange) chunk.windowbegin++
RECURSIVE AdvanceWindowBegin(_, _, _, _)
AdvanceWindowBegin(chunks, chunkId, windowbegin, halfWindowRange) ==
    IF USub(chunks[chunkId].samplePositionStart, chunks[windowbegin].samplePositionStart)
           > halfWindowRange
    THEN AdvanceWindowBegin(chunks, chunkId, windowbegin + 1, halfWindowRange)
    ELSE windowbegin

\* a window end counted back from the last chunk
AdvanceWindowEnd_mirror(chunks, numChunks, chunkId, windowend, halfWindowRange) ==
    numChunks - chunkId

\* the loop of lines 121-123 never entered
AdvanceWindowEnd_stay(chunks, numChunks, chunkId, windowend, halfWindowRange) == windowend

\* lines 121-123: while (windowend < m_numChunks && ... < halfWindowRange) chunk.windowend++
RECURSIVE AdvanceWindowEnd(_, _, _, _, _)
AdvanceWindowEnd(chunks, numChunks, chunkId, windowend, halfWindowRange) ==
    IF /\ windowend < numChunks
       /\ USub(chunks[windowend + 1].samplePositionStart, chunks[chunkId].samplePositionStart)
              < halfWindowRange
    THEN AdvanceWindowEnd(chunks, numChunks, chunkId, windowend + 1, halfWindowRange)
    ELSE windowend

\* lines 104-124: the window of every randomized chunk
RECURSIVE ComputeWindows(_, _, _, _)
ComputeWindows(chunks, numChunks, chunkId, halfWindowRange) ==
    IF chunkId >= numChunks THEN chunks
    ELSE LET wb0 == IF chunkId = 0 THEN 0 ELSE chunks[chunkId - 1].windowbegin
             we0 == IF chunkId = 0 THEN 1 ELSE chunks[chunkId - 1].windowend
             wb == AdvanceWindowBegin(chunks, chunkId, wb0, halfWindowRange)
             we == AdvanceWindowEnd(chunks, numChunks, chunkId, we0, halfWindowRange)
         IN  ComputeWindows([chunks EXCEPT ![chunkId].windowbegin = wb,
                                           ![chunkId].windowend = we],
                            numChunks, chunkId + 1, halfWindowRange)

\* lines 127-138
SequencePositionToChunkIndex(chunks, numChunks, numSequences) ==
    [p \in 0 .. numSequences - 1 |->
        CHOOSE k \in 0 .. numChunks - 1 :
            /\ chunks[k].sequencePositionStart <= p
            /\ p < chunks[k + 1].sequencePositionStart]

\* BlockRandomizer::RandomizeChunks
RandomizeChunks(rz, libc) ==
    LET sh == randomShuffle([i \in 0 .. rz.m_numChunks - 1 |-> i], libc, rz.m_sweep)
        placed == PlaceChunks(rz, sh.v, 0, rz.m_sweepStartInSamples, 0, Empty)
        chunks == ComputeWindows(placed, rz.m_numChunks, 0,
                                 rz.m_randomizationRangeInSamples \div 2)
    IN  [rz |-> [rz EXCEPT !.m_randomizedChunks = chunks,
                           !.m_sequencePositionToChunkIndex =
                               SequencePositionToChunkIndex(chunks, rz.m_numChunks, rz.m_numSequences)],
         libc |-> sh.libc]

\* IsValidForPosition with the window closed at its end
IsValidForPosition_closed(rz, targetPosition, seqDesc) ==
    LET chunk == rz.m_randomizedChunks[rz.m_sequencePositionToChunkIndex[targetPosition]]
    IN  chunk.windowbegin <= seqDesc.chunkId /\ seqDesc.chunkId <= chunk.windowend

\* BlockRandomizer::IsValidForPosition
IsValidForPosition(rz, targetPosition, seqDesc) ==
    LET chunk == rz.m_randomizedChunks[rz.m_sequencePositionToChunkIndex[targetPosition]]
    IN  chunk.windowbegin <= seqDesc.chunkId /\ seqDesc.chunkId < chunk.windowend

\* ------------------------------------------------------------- Randomize
\* lines 156-168: the timeline shuffled by chunks, chunkId rewritten
ChunkOrderedTimeline(rz, timeline) ==
    [p \in 0 .. rz.m_numSequences - 1 |->
        LET chunkId == rz.m_sequencePositionToChunkIndex[p]
            originalChunkIndex == rz.m_randomizedChunks[chunkId].originalChunkIndex
            sequencePosition == rz.m_chunkInformation[originalChunkIndex].sequencePositionStart
                                + (p - rz.m_randomizedChunks[chunkId].sequencePositionStart)
        IN  [timeline[sequencePosition] EXCEPT !.chunkId = chunkId]]

\* the swap of line 205 done as a plain assignment
SwapSequences_copy(rz, i, j) ==
    [rz EXCEPT !.m_randomTimeline = [rz.m_randomTimeline EXCEPT ![i] = rz.m_randomTimeline[j]]]

\* line 205: std::swap(m_randomTimeline[i], m_randomTimeline[j])
SwapSequences(rz, i, j) ==
    [rz EXCEPT !.m_randomTimeline = Swap(rz.m_randomTimeline, i, j)]

\* lines 191-207: the retry loop at position i.  The loop state is the
\* generator state alone, so RAND_MOD failed picks mean it never exits.
\* An empty range makes rand() divide by zero.
RECURSIVE PickAndSwap(_, _, _, _, _, _)
PickAndSwap(rz, libc, i, posbegin, posend, fuel) ==
    IF posbegin = posend THEN [status |-> "divzero", rz |-> rz, libc |-> libc]
    ELSE IF fuel = 0 THEN [status |-> "hang", rz |-> rz, libc |-> libc]
    ELSE LET r == rand(libc, posbegin, posend)
             j == r.val
         IN  IF ~IsValidForPosition(rz, i, rz.m_randomTimeline[j])
             THEN PickAndSwap(rz, r.libc, i, posbegin, posend, fuel - 1)
             ELSE IF ~IsValidForPosition(rz, j, rz.m_randomTimeline[i])
             THEN PickAndSwap(rz, r.libc, i, posbegin, posend, fuel - 1)
             ELSE [status |-> "ok", rz |-> SwapSequences(rz, i, j), libc |-> r.libc]

\* lines 180-208: foreach_index (i, m_randomTimeline)
RECURSIVE ShuffleTimeline(_, _, _)
ShuffleTimeline(rz, libc, i) ==
    IF i >= rz.m_numSequences THEN [status |-> "ok", rz |-> rz, libc |-> libc]
    ELSE LET chunkId == rz.m_sequencePositionToChunkIndex[i]
             windowbegin == rz.m_randomizedChunks[chunkId].windowbegin
             windowend == rz.m_randomizedChunks[chunkId].windowend
             posbegin == rz.m_randomizedChunks[windowbegin].sequencePositionStart
             posend == rz.m_randomizedChunks[windowend].sequencePositionStart
             r == PickAndSwap(rz, libc, i, posbegin, posend, RAND_MOD)
         IN  IF r.status # "ok" THEN r ELSE ShuffleTimeline(r.rz, r.libc, i + 1)

\* lines 156-208: the chunk-ordered timeline, shuffled after srand(m_sweep + 1);
\* rc is what RandomizeChunks returned
ShuffleChunkOrdered(rc, timeline) ==
    ShuffleTimeline([rc.rz EXCEPT !.m_randomTimeline = ChunkOrderedTimeline(rc.rz, timeline)],
                    Srand(rc.libc, rc.rz.m_sweep + 1), 0)

\* lines 210-216: the final pass over the shuffled timeline
VerifyRandomized(sh) ==
    IF sh.status # "ok" THEN sh
    ELSE IF \E i \in DOMAIN sh.rz.m_randomTimeline :
                ~IsValidForPosition(sh.rz, i, sh.rz.m_randomTimeline[i])
    THEN [sh EXCEPT !.status = "LogicError"]
    ELSE sh

\* BlockRandomizer::Randomize; ps is the process: the randomizer, the
\* generator of the C library and how the call ended
Randomize(ps, timeline) ==
    VerifyRandomized(ShuffleChunkOrdered(RandomizeChunks(ps.rz, ps.libc), timeline))

\* m_sequencePositionInSweep = position, once Randomize has returned
SetSequencePositionInSweep(r, position) ==
    IF r.status # "ok" THEN r
    ELSE [r EXCEPT !.rz.m_sequencePositionInSweep = position]

\* RandomizeIfNewSweepIsEntered without m_sweepStartInSamples += m_numSamples
\* of line 227
RandomizeIfNewSweepIsEntered_nostart(ps, timeline) ==
    IF ps.rz.m_sequencePositionInSweep >= ps.rz.m_numSequences
    THEN SetSequencePositionInSweep(
             Randomize([ps EXCEPT !.rz.m_sweep = (ps.rz.m_sweep + 1) % SIZE_MOD], timeline),
             0)
    ELSE ps

\* RandomizeIfNewSweepIsEntered passing over one sweep
RandomizeIfNewSweepIsEntered_skip(ps, timeline) ==
    IF ps.rz.m_sequencePositionInSweep >= ps.rz.m_numSequences
    THEN SetSequencePositionInSweep(
             Randomize([ps EXCEPT !.rz.m_sweep = (ps.rz.m_sweep + 2) % SIZE_MOD,
                                  !.rz.m_sweepStartInSamples =
                                      (ps.rz.m_sweepStartInSamples + 2 * ps.rz.m_numSamples) % SIZE_MOD],
                       timeline),
             0)
    ELSE ps

\* BlockRandomizer::RandomizeIfNewSweepIsEntered
RandomizeIfNewSweepIsEntered(ps, timeline) ==
    IF ps.rz.m_sequencePositionInSweep >= ps.rz.m_numSequences
    THEN SetSequencePositionInSweep(
             Randomize([ps EXCEPT !.rz.m_sweep = (ps.rz.m_sweep + 1) % SIZE_MOD,
                                  !.rz.m_sweepStartInSamples =
                                      (ps.rz.m_sweepStartInSamples + ps.rz.m_numSamples) % SIZE_MOD],
                       timeline),
             0)
    ELSE ps

\* BlockRandomizer::RandomizeForGlobalSamplePosition
RandomizeForGlobalSamplePosition(ps, timeline, samplePosition) ==
    LET sweep == samplePosition \div ps.rz.m_numSamples
    IN  SetSequencePositionInSweep(
            IF ps.rz.m_sweep # sweep
            THEN Randomize([ps EXCEPT !.rz.m_sweep = sweep,
                                      !.rz.m_sweepStartInSamples =
                                          (sweep * ps.rz.m_numSamples) % SIZE_MOD],
                           timeline)
            ELSE ps,
            samplePosition % ps.rz.m_numSamples)

\* StartEpoch without m_samplePositionInEpoch = 0 of line 313
RandomizerStartEpoch_keep(ps, timeline, config) ==
    LET epochSize == IF config.totalSize = requestDataSize
                     THEN ps.rz.m_numSamples ELSE config.totalSize
        timeframe == (epochSize * config.index) % SIZE_MOD
    IN  RandomizeForGlobalSamplePosition(
            [ps EXCEPT !.rz.m_workerRank = config.workerRank,
                       !.rz.m_numberOfWorkers = config.numberOfWorkers,
                       !.rz.m_epochSize = epochSize],
            timeline, timeframe)

\* BlockRandomizer::StartEpoch
RandomizerStartEpoch(ps, timeline, config) ==
    LET epochSize == IF config.totalSize = requestDataSize
                     THEN ps.rz.m_numSamples ELSE config.totalSize
        timeframe == (epochSize * config.index) % SIZE_MOD
    IN  RandomizeForGlobalSamplePosition(
            [ps EXCEPT !.rz.m_workerRank = config.workerRank,
                       !.rz.m_numberOfWorkers = config.numberOfWorkers,
                       !.rz.m_epochSize = epochSize,
                       !.rz.m_samplePositionInEpoch = 0],
            timeline, timeframe)

RECURSIVE AdvanceToNextPositionForThisWorker(_, _)
\* lines 326-335: one turn of the loop, r being what
\* RandomizeIfNewSweepIsEntered returned
SkipOthersSequence(r, timeline) ==
    LET seqDesc == r.rz.m_randomTimeline[r.rz.m_sequencePositionInSweep]
    IN  IF r.status # "ok" THEN [ps |-> r, endOfEpoch |-> FALSE]
        ELSE IF (seqDesc.chunkId % r.rz.m_numberOfWorkers) = r.rz.m_workerRank
        THEN [ps |-> r, endOfEpoch |-> r.rz.m_epochSize <= r.rz.m_samplePositionInEpoch]
        ELSE AdvanceToNextPositionForThisWorker(
                 [r EXCEPT !.rz.m_samplePositionInEpoch = @ + seqDesc.numberOfSamples,
                           !.rz.m_sequencePositionInSweep = @ + 1],
                 timeline)

\* BlockRandomizer::AdvanceToNextPositionForThisWorker; the result carries
\* the returned flag in endOfEpoch
AdvanceToNextPositionForThisWorker(ps, timeline) ==
    IF ps.rz.m_samplePositionInEpoch < ps.rz.m_epochSize
    THEN SkipOthersSequence(RandomizeIfNewSweepIsEntered(ps, timeline), timeline)
    ELSE [ps |-> ps, endOfEpoch |-> ps.rz.m_epochSize <= ps.rz.m_samplePositionInEpoch]

RECURSIVE SelectIds(_, _, _, _)
\* lines 351-363: one turn of the loop, a being what
\* AdvanceToNextPositionForThisWorker returned
SelectPosition(a, timeline, count, ids) ==
    LET seqDesc == a.ps.rz.m_randomTimeline[a.ps.rz.m_sequencePositionInSweep]
    IN  IF a.ps.status # "ok" \/ a.endOfEpoch
        THEN [ps |-> a.ps, ids |-> ids, endOfEpoch |-> a.endOfEpoch]
        ELSE SelectIds([a.ps EXCEPT !.rz.m_samplePositionInEpoch = @ + seqDesc.numberOfSamples,
                                    !.rz.m_sequencePositionInSweep = @ + 1],
                       timeline, count,
                       PushBack(ids, a.ps.rz.m_sequencePositionInSweep))

\* lines 349-364: while (ids.size() < count)
SelectIds(ps, timeline, count, ids) ==
    IF Size(ids) < count
    THEN SelectPosition(AdvanceToNextPositionForThisWorker(ps, timeline), timeline, count, ids)
    ELSE [ps |-> ps, ids |-> ids, endOfEpoch |-> FALSE]

\* ------------------------------------------------------ GetNextSequences
\* RequireAndRelease without the ReleaseChunk calls of line 387
RequireAndRelease_keep(rz, required, windowbegin, windowend) ==
    required \cup {rz.m_randomizedChunks[chunkId].originalChunkIndex :
                       chunkId \in {c \in 0 .. rz.m_numChunks - 1 :
                                       windowbegin <= c /\ c < windowend}}

\* the loop of lines 377-389 with the window closed at its end
ChunkCalls_closed(rz, windowbegin, windowend) ==
    [chunkId \in 0 .. rz.m_numChunks - 1 |->
        [call |-> IF windowbegin <= chunkId /\ chunkId <= windowend
                  THEN "RequireChunk" ELSE "ReleaseChunk",
         chunk |-> rz.m_randomizedChunks[chunkId].originalChunkIndex]]

\* lines 377-389: the calls made on the deserializer, in the order of the loop
ChunkCalls(rz, windowbegin, windowend) ==
    [chunkId \in 0 .. rz.m_numChunks - 1 |->
        [call |-> IF windowbegin <= chunkId /\ chunkId < windowend
                  THEN "RequireChunk" ELSE "ReleaseChunk",
         chunk |-> rz.m_randomizedChunks[chunkId].originalChunkIndex]]

\* the deserializer's set of required chunks after the calls from i on
RECURSIVE ApplyChunkCalls(_, _, _)
ApplyChunkCalls(required, calls, i) ==
    IF i >= Size(calls) THEN required
    ELSE ApplyChunkCalls(IF calls[i].call = "RequireChunk"
                         THEN required \cup {calls[i].chunk}
                         ELSE required \ {calls[i].chunk},
                         calls, i + 1)

\* lines 377-389: RequireChunk / ReleaseChunk on the deserializer, one call
\* per physical chunk
RequireAndRelease(rz, required, windowbegin, windowend) ==
    ApplyChunkCalls(required, ChunkCalls(rz, windowbegin, windowend), 0)

\* m_deserializer->GetSequencesById: a sample is one payload per stream,
\* named by the id of its sequence; applied counts the transforms it saw
GetSequencesById(originalIds) ==
    [i \in DOMAIN originalIds |->
        [j \in 0 .. NumStreams - 1 |-> [id |-> originalIds[i], applied |-> 0]]]

\* lines 366-400: the chunks and the sequences of the positions selected;
\* sel is what the loop of lines 349-364 left, ds the deserializer
FetchSelected(sel, ds) ==
    LET rz == sel.ps.rz
        ids == sel.ids
        windowbegin == rz.m_randomizedChunks[rz.m_sequencePositionToChunkIndex[ids[0]]].windowbegin
        windowend ==
            rz.m_randomizedChunks[rz.m_sequencePositionToChunkIndex[ids[Size(ids) - 1]]].windowend
        originalIds == [i \in DOMAIN ids |-> rz.m_randomTimeline[ids[i]].id]
    IN  IF sel.ps.status # "ok" \/ Size(ids) = 0
        THEN [ps |-> sel.ps, ds |-> ds, ids |-> ids, originalIds |-> Empty,
              calls |-> Empty,
              result |-> [m_endOfEpoch |-> sel.endOfEpoch, m_data |-> Empty]]
        ELSE [ps |-> sel.ps,
              ds |-> [ds EXCEPT !.required = RequireAndRelease(rz, ds.required, windowbegin, windowend)],
              ids |-> ids, originalIds |-> originalIds,
              calls |-> PushBack(ChunkCalls(rz, windowbegin, windowend),
                                 [call |-> "GetSequencesById", chunk |-> Indeterminate]),
              result |-> [m_endOfEpoch |-> sel.endOfEpoch,
                          m_data |-> GetSequencesById(originalIds)]]

\* BlockRandomizer::GetNextSequences
GetNextSequences(ps, ds, count) ==
    FetchSelected(SelectIds(ps, ds.timeline, count, Empty), ds)

\* ---------------------------------------------------------------- doubles
\* A double is m * 2^e with a significand of MantissaBits bits; every
\* operation rounds its exact result to the nearest double, ties to even.
RECURSIVE BitLength(_)
BitLength(n) == IF n = 0 THEN 0 ELSE 1 + BitLength(n \div 2)

\* the double nearest to m * 2^e, s being the bits m has too many
RoundOff(m, e, s) ==
    IF s <= 0 THEN [m |-> m, e |-> e]
    ELSE [m |-> (m \div 2 ^ s)
                + (IF \/ m % 2 ^ s > 2 ^ (s - 1)
                      \/ (m % 2 ^ s = 2 ^ (s - 1) /\ (m \div 2 ^ s) % 2 = 1)
                   THEN 1 ELSE 0),
          e |-> e + s]

Double(m, e) == RoundOff(m, e, BitLength(m) - MantissaBits)

\* a * b
Times(a, b) == Double(a.m * b.m, a.e + b.e)

\* the exact a - b in units of 2^Min(a.e, b.e)
Difference(a, b) == a.m * 2 ^ (a.e - Min({a.e, b.e})) - b.m * 2 ^ (b.e - Min({a.e, b.e}))

\* a + sign * b, for a result that is not negative
Plus(a, b, sign) ==
    Double(a.m * 2 ^ (a.e - Min({a.e, b.e})) + sign * b.m * 2 ^ (b.e - Min({a.e, b.e})),
           Min({a.e, b.e}))

\* static_cast<int> of a double that is not negative
ToInt(a) == IF a.e >= 0 THEN a.m * 2 ^ a.e ELSE a.m \div 2 ^ (0 - a.e)

\* ---------------------------------------------------------------- strings
\* A string is the sequence of its characters.
UpperCase == <<"A", "B", "C", "D", "E", "F", "G", "H", "I", "J", "K", "L", "M",
               "N", "O", "P", "Q", "R", "S", "T", "U", "V", "W", "X", "Y", "Z">>
LowerCase == <<"a", "b", "c", "d", "e", "f", "g", "h", "i", "j", "k", "l", "m",
               "n", "o", "p", "q", "r", "s", "t", "u", "v", "w", "x", "y", "z">>

ToLower(c) ==
    IF \E k \in DOMAIN UpperCase : UpperCase[k] = c
    THEN LowerCase[CHOOSE k \in DOMAIN UpperCase : UpperCase[k] = c]
    ELSE c

AreEqualIgnoreCase(a, b) ==
    Len(a) = Len(b) /\ \A k \in DOMAIN a : ToLower(a[k]) = ToLower(b[k])

\* ------------------------------------------------------------- std::random
\* std::mt19937 as a generator of MtBits bits
Mt19937(seed) == [state |-> seed % 2 ^ MtBits]

\* one value of the generator
Generate(rng) ==
    [rng |-> [state |-> (5 * rng.state + 1) % 2 ^ MtBits],
     val |-> (5 * rng.state + 1) % 2 ^ MtBits]

\* std::uniform_int_distribution<int>(a, b)(rng)
UniIntT(a, b, rng) ==
    [rng |-> Generate(rng).rng, val |-> a + (Generate(rng).val % (b - a + 1))]

\* std::uniform_real_distribution<double>(a, b)(rng): a + u * (b - a)
UniRealT(a, b, rng) ==
    [rng |-> Generate(rng).rng,
     val |-> Plus(Times(Double(Generate(rng).val, 0 - MtBits), Plus(b, a, 0 - 1)), a, 1)]

\* std::bernoulli_distribution()(rng)
Bernoulli(rng) ==
    [rng |-> Generate(rng).rng, val |-> Generate(rng).val < 2 ^ (MtBits - 1)]

\* --------------------------------------------------------- CropTransformer
\* CropTransformer::ParseCropType
ParseCropType(src) ==
    IF src = <<>> \/ AreEqualIgnoreCase(src, <<"c", "e", "n", "t", "e", "r">>) THEN "Center"
    ELSE IF AreEqualIgnoreCase(src, <<"r", "a", "n", "d", "o", "m">>) THEN "Random"
    ELSE "RuntimeError"

\* ParseJitterType that knows the two implemented kinds only
ParseJitterType_implemented(src) ==
    IF src = <<>> \/ AreEqualIgnoreCase(src, <<"n", "o", "n", "e">>) THEN "None"
    ELSE IF AreEqualIgnoreCase(src, <<"u", "n", "i", "r", "a", "t", "i", "o">>) THEN "UniRatio"
    ELSE "RuntimeError"

\* CropTransformer::ParseJitterType
ParseJitterType(src) ==
    IF src = <<>> \/ AreEqualIgnoreCase(src, <<"n", "o", "n", "e">>) THEN "None"
    ELSE IF AreEqualIgnoreCase(src, <<"u", "n", "i", "r", "a", "t", "i", "o">>) THEN "UniRatio"
    ELSE IF AreEqualIgnoreCase(src, <<"u", "n", "i", "l", "e", "n", "g", "t", "h">>) THEN "UniLength"
    ELSE IF AreEqualIgnoreCase(src, <<"u", "n", "i", "a", "r", "e", "a">>) THEN "UniArea"
    ELSE "RuntimeError"

\* CropTransformer::InitFromConfig on the object BaseTransformer::Initialize
\* left; config.hflip is the empty string when the key does not exist
CropInitFromConfig(seed, config) ==
    IF ParseCropType(config.cropType) = "RuntimeError" THEN [status |-> "RuntimeError"]
    ELSE IF \/ ~(0 < config.cropRatio[1].m /\ Difference(config.cropRatio[1], Double(1, 0)) <= 0)
            \/ ~(0 < config.cropRatio[2].m /\ Difference(config.cropRatio[2], Double(1, 0)) <= 0)
            \/ Difference(config.cropRatio[1], config.cropRatio[2]) > 0
    THEN [status |-> "RuntimeError"]
    ELSE IF ParseJitterType(config.jitterType) = "RuntimeError" THEN [status |-> "RuntimeError"]
    ELSE [status |-> "ok",
          m_seed |-> seed,
          m_rngs |-> <<>>,
          m_cropType |-> ParseCropType(config.cropType),
          m_cropRatioMin |-> config.cropRatio[1],
          m_cropRatioMax |-> config.cropRatio[2],
          m_jitterType |-> ParseJitterType(config.jitterType),
          m_hFlip |-> IF config.hflip = "" THEN ParseCropType(config.cropType) = "Random"
                      ELSE config.hflip # "0"]

\* lines 247-263, cropSize being what line 244 computed
CropRectOfSize(type, crow, ccol, cropSize, rng) ==
    IF type = "Center"
    THEN [rng |-> rng,
          rect |-> [x |-> (ccol - cropSize) \div 2, y |-> (crow - cropSize) \div 2,
                    width |-> cropSize, height |-> cropSize]]
    ELSE [rng |-> UniIntT(0, crow - cropSize, UniIntT(0, ccol - cropSize, rng).rng).rng,
          rect |-> [x |-> UniIntT(0, ccol - cropSize, rng).val,
                    y |-> UniIntT(0, crow - cropSize, UniIntT(0, ccol - cropSize, rng).rng).val,
                    width |-> cropSize, height |-> cropSize]]

\* GetCropRect that puts the center crop into the top left corner
GetCropRect_corner(type, crow, ccol, cropRatio, rng) ==
    CropRectOfSize(type, ToInt(Times(Double(Min({crow, ccol}), 0), cropRatio)),
                   ToInt(Times(Double(Min({crow, ccol}), 0), cropRatio)),
                   ToInt(Times(Double(Min({crow, ccol}), 0), cropRatio)), rng)

\* CropTransformer::GetCropRect
GetCropRect(type, crow, ccol, cropRatio, rng) ==
    CropRectOfSize(type, crow, ccol,
                   ToInt(Times(Double(Min({crow, ccol}), 0), cropRatio)), rng)

\* pop_or_create leaving the generator it returns on the stack
PopOrCreate_top(tr) ==
    IF Len(tr.m_rngs) = 0
    THEN [tr |-> tr, rng |-> Mt19937(tr.m_seed)]
    ELSE [tr |-> tr, rng |-> tr.m_rngs[Len(tr.m_rngs)]]

\* m_rngs.pop_or_create: the generator on top of the stack, or a new one
PopOrCreate(tr) ==
    IF Len(tr.m_rngs) = 0
    THEN [tr |-> tr, rng |-> Mt19937(tr.m_seed)]
    ELSE [tr |-> [tr EXCEPT !.m_rngs = SubSeq(@, 1, Len(@) - 1)], rng |-> tr.m_rngs[Len(tr.m_rngs)]]

\* lines 191-193: the crop and the flip, r being what GetCropRect returned
CropAndFlip(tr, mat, r) ==
    [status |-> "ok",
     rng |-> IF tr.m_hFlip THEN Bernoulli(r.rng).rng ELSE r.rng,
     mat |-> [mat EXCEPT !.rows = r.rect.height, !.cols = r.rect.width,
                         !.x = @ + r.rect.x, !.y = @ + r.rect.y,
                         !.flipped = IF tr.m_hFlip /\ Bernoulli(r.rng).val THEN ~@ ELSE @]]

\* lines 170-193 with the generator rng: the ratio, the crop, the flip
CropWith(tr, mat, rng) ==
    IF tr.m_jitterType = "None"
           \/ (tr.m_jitterType = "UniRatio"
                   /\ Difference(tr.m_cropRatioMin, tr.m_cropRatioMax) = 0)
    THEN CropAndFlip(tr, mat, GetCropRect(tr.m_cropType, mat.rows, mat.cols, tr.m_cropRatioMin, rng))
    ELSE IF tr.m_jitterType = "UniRatio"
    THEN CropAndFlip(tr, mat,
                     GetCropRect(tr.m_cropType, mat.rows, mat.cols,
                                 UniRealT(tr.m_cropRatioMin, tr.m_cropRatioMax, rng).val,
                                 UniRealT(tr.m_cropRatioMin, tr.m_cropRatioMax, rng).rng))
    ELSE [status |-> "RuntimeError", rng |-> rng, mat |-> mat]

\* m_rngs.push of line 195, c being what lines 170-193 left; a RuntimeError
\* leaves Apply before it
PushBackRng(tr, c) ==
    [status |-> c.status, mat |-> c.mat,
     tr |-> IF c.status = "ok" THEN [tr EXCEPT !.m_rngs = Append(@, c.rng)] ELSE tr]

\* CropTransformer::Apply run by one thread
CropApply(tr, mat) ==
    PushBackRng(PopOrCreate(tr).tr, CropWith(PopOrCreate(tr).tr, mat, PopOrCreate(tr).rng))

\* -------------------------------------------------------- ScaleTransformer
\* lines 275-278
m_interpMap ==
    <<"n", "e", "a", "r", "e", "s", "t">> :> "INTER_NEAREST"
        @@ <<"l", "i", "n", "e", "a", "r">> :> "INTER_LINEAR"
        @@ <<"c", "u", "b", "i", "c">> :> "INTER_CUBIC"
        @@ <<"l", "a", "n", "c", "z", "o", "s">> :> "INTER_LANCZOS4"

\* lines 304-312: the tokens of the interpolations string that the map
\* knows, lower case, in their order
RECURSIVE Interpolations(_, _)
Interpolations(tokens, k) ==
    IF k > Len(tokens) THEN <<>>
    ELSE IF [c \in DOMAIN tokens[k] |-> ToLower(tokens[k][c])] \in DOMAIN m_interpMap
    THEN <<m_interpMap[[c \in DOMAIN tokens[k] |-> ToLower(tokens[k][c])]]>>
             \o Interpolations(tokens, k + 1)
    ELSE Interpolations(tokens, k + 1)

\* a * b in size_t, the product taken in two halves of a
SizeTimes(a, b) ==
    ((((a \div 256) * b) % (SIZE_MOD \div 256)) * 256 + (a % 256) * b) % SIZE_MOD

\* ScaleTransformer::InitFromConfig; width, height and channels are size_t
ScaleInitFromConfig(seed, config) ==
    IF \/ SizeTimes(SizeTimes(config.width, config.height), config.channels) = 0
       \/ SizeTimes(SizeTimes(config.width, config.height), config.channels) > SIZE_MAX \div 2
    THEN [status |-> "RuntimeError"]
    ELSE [status |-> "ok", m_seed |-> seed, m_rngs |-> <<>>,
          m_imgWidth |-> config.width, m_imgHeight |-> config.height,
          m_imgChannels |-> config.channels,
          m_interp |-> IF Interpolations(config.interpolations, 1) = <<>>
                       THEN <<"INTER_LINEAR">>
                       ELSE Interpolations(config.interpolations, 1)]

\* --------------------------------------------------------- MeanTransformer
\* MeanTransformer::Initialize: BaseTransformer::Initialize and nothing
\* else; InitFromConfig, which reads meanFile, is not called, and m_meanImg
\* stays the empty cv::Mat of its constructor
MeanInitialize(seed, config) ==
    [status |-> "ok", m_seed |-> seed, m_meanImg |-> [rows |-> 0, cols |-> 0, data |-> <<>>]]

\* MeanTransformer::Apply
MeanApply(tr, mat) ==
    [status |-> "ok", tr |-> tr,
     mat |-> IF tr.m_meanImg.cols = mat.cols /\ tr.m_meanImg.rows = mat.rows
             THEN [mat EXCEPT !.data = [k \in DOMAIN mat.data |-> mat.data[k] - tr.m_meanImg.data[k]]]
             ELSE mat]

\* ------------------------------------------------------ transformer chain
\* BaseTransformer::Apply on the feature stream of one sample
Apply(sample) == [sample EXCEPT ![0].applied = @ + 1]

\* BaseTransformer::GetNextSequences, given what m_next returned
TransformSequences(samples) ==
    IF samples.m_endOfEpoch THEN samples
    ELSE [samples EXCEPT !.m_data = [i \in DOMAIN samples.m_data |-> Apply(samples.m_data[i])]]

\* the chain of n transformers on top of the randomizer
RECURSIVE TransformerChain(_, _)
TransformerChain(samples, n) ==
    IF n = 0 THEN samples ELSE TransformSequences(TransformerChain(samples, n - 1))

\* ------------------------------------------------------- FrameModePacker
\* FrameModePacker::FrameModePacker: one buffer of m_mbSize samples per
\* stream, its memory not initialized
FrameModePacker(minibatchSize) ==
    [m_mbSize |-> minibatchSize,
     m_streamBuffers |-> [j \in 0 .. NumStreams - 1 |->
                             [i \in 0 .. minibatchSize - 1 |->
                                 [id |-> Indeterminate, applied |-> Indeterminate]]]]

\* ReadMinibatch that returns no stream when the transformer reports the end
\* of the epoch
ReadMinibatch_drop(pk, images) ==
    LET n == Size(images.m_data)
        buffers == [j \in 0 .. NumStreams - 1 |->
                       [i \in 0 .. pk.m_mbSize - 1 |->
                           IF i < n THEN images.m_data[i][j] ELSE pk.m_streamBuffers[j][i]]]
    IN  [pk |-> [pk EXCEPT !.m_streamBuffers = buffers],
         m |-> [atEndOfEpoch |-> images.m_endOfEpoch,
                minibatch |-> IF n = 0 \/ images.m_endOfEpoch THEN Empty
                              ELSE [j \in 0 .. NumStreams - 1 |->
                                       [data |-> buffers[j], dataSize |-> n, numCols |-> n]]]]

\* FrameModePacker::ReadMinibatch, given what m_transformer returned
ReadMinibatch(pk, images) ==
    LET n == Size(images.m_data)
        buffers == [j \in 0 .. NumStreams - 1 |->
                       [i \in 0 .. pk.m_mbSize - 1 |->
                           IF i < n THEN images.m_data[i][j] ELSE pk.m_streamBuffers[j][i]]]
    IN  [pk |-> [pk EXCEPT !.m_streamBuffers = buffers],
         m |-> [atEndOfEpoch |-> images.m_endOfEpoch,
                minibatch |-> IF n = 0 THEN Empty
                              ELSE [j \in 0 .. NumStreams - 1 |->
                                       [data |-> buffers[j], dataSize |-> n, numCols |-> n]]]]

\* ------------------------------------------------------------ ReaderShim
\* GetMinibatch without m_endOfEpoch = true of line 92
GetMinibatch_nolatch(sh, mx, m) ==
    IF sh.m_endOfEpoch
    THEN [sh |-> sh, matrices |-> mx, read |-> FALSE, ret |-> FALSE]
    ELSE IF Size(m.minibatch) # 0
    THEN [sh |-> sh,
          matrices |-> [j \in DOMAIN mx |->
                           [c \in 0 .. m.minibatch[j].numCols - 1 |->
                               m.minibatch[j].data[c]]],
          read |-> TRUE, ret |-> TRUE]
    ELSE [sh |-> sh, matrices |-> mx, read |-> TRUE, ret |-> FALSE]

\* ReaderShim::GetMinibatch; m is what m_reader->ReadMinibatch() returns
\* when the call is made, mx the matrices the caller passes in
GetMinibatch(sh, mx, m) ==
    IF sh.m_endOfEpoch
    THEN [sh |-> sh, matrices |-> mx, read |-> FALSE, ret |-> FALSE]
    ELSE LET sh1 == IF m.atEndOfEpoch THEN [sh EXCEPT !.m_endOfEpoch = TRUE] ELSE sh
         IN  IF m.atEndOfEpoch /\ Size(m.minibatch) = 0
             THEN [sh |-> sh1, matrices |-> mx, read |-> TRUE, ret |-> FALSE]
             ELSE IF Size(m.minibatch) # 0
             THEN [sh |-> sh1,
                   matrices |-> [j \in DOMAIN mx |->
                                    [c \in 0 .. m.minibatch[j].numCols - 1 |->
                                        m.minibatch[j].data[c]]],
                   read |-> TRUE, ret |-> TRUE]
             ELSE [sh |-> sh1, matrices |-> mx, read |-> TRUE, ret |-> FALSE]

\* ----------------------------------------------------------------- state
VARIABLES
    randomizer,     \* the BlockRandomizer object
    libc,           \* the generator of the C library: mul, inc, state
    deserializer,   \* timeline, chunks required and not released
    packer,         \* the FrameModePacker object
    shim,           \* the ReaderShim object
    fault,          \* "none", or how the process stopped
    driver,         \* the training job: its rank, its workers, its epoch size
    hist,           \* the current epoch: configuration, calls, ids delivered,
                    \* and whether an epoch came before it
    out,            \* what the last operation returned, and the calls it
                    \* made on the deserializer
    build,          \* how the program was compiled: NDEBUG removes assert
    transformer,    \* a CropTransformer or MeanTransformer object
    samples,        \* the samples of the batch a transformer works on
    workers         \* the threads of the parallel loop of a transformer

vars == <<randomizer, libc, deserializer, packer, shim, fault, driver, hist, out, build,
          transformer, samples, workers>>

\* the reader under the transformers, and the transformers on their own
reader == <<randomizer, libc, deserializer, packer, shim>>
NoTransformer == transformer = [status |-> "none"] /\ samples = <<>> /\ workers = <<>>

ChunkLayouts ==
    {sizes \in UNION {[1 .. n -> 1 .. MaxSequences] : n \in 1 .. MaxSequences} :
        SumSizes(sizes, Len(sizes)) <= MaxSequences}
\* line 104 reads the range as m_randomizationRangeInSamples / 2 only; a
\* window wider than two corpora is the whole corpus
Windows == {2 * halfWindowRange : halfWindowRange \in 0 .. MaxSequences}
Multipliers == {1, 5}
Increments == {1}
TotalSizes == {requestDataSize} \cup (1 .. MaxTotalSize)

\* the matrices a caller passes to GetMinibatch, one per stream
CallerMatrices == [j \in 0 .. NumStreams - 1 |-> Empty]

NoOutput == [op |-> "none", ret |-> FALSE, read |-> FALSE, ids |-> Empty,
             calls |-> Empty,
             originalIds |-> Empty, matrices |-> CallerMatrices,
             m |-> [atEndOfEpoch |-> FALSE, minibatch |-> Empty]]

Init ==
    \E sizes \in ChunkLayouts, W \in Windows, mb \in 1 .. MaxMbSize,
       mul \in Multipliers, inc \in Increments,
       numSubsets \in 1 .. MaxWorkers, subsetNum \in 0 .. MaxWorkers - 1,
       requestedEpochSamples \in TotalSizes :
        /\ subsetNum < numSubsets
        /\ driver = [subsetNum |-> subsetNum, numSubsets |-> numSubsets,
                     requestedEpochSamples |-> requestedEpochSamples]
        /\ deserializer = [timeline |-> GetSequenceDescriptions(sizes),
                           required |-> {}]
        /\ randomizer = BlockRandomizer(W, GetSequenceDescriptions(sizes))
        /\ libc = [mul |-> mul, inc |-> inc, state |-> 1]
        /\ packer = FrameModePacker(mb)
        /\ shim = [m_endOfEpoch |-> Indeterminate]
        /\ fault = "none"
        /\ hist = [started |-> FALSE, restarted |-> FALSE, config |-> Indeterminate,
                   calls |-> 0, delivered |-> <<>>]
        /\ out = NoOutput
        /\ build = [NDEBUG |-> TRUE]
        /\ NoTransformer

\* how the process stops when Randomize does not return: a division by
\* zero traps, or yields a value and the retry loop spins on an empty window
FaultsOf(status) ==
    CASE status = "ok" -> {"none"}
      [] status = "divzero" -> {"trap", "hang"}
      [] status = "hang" -> {"hang"}
      [] status = "LogicError" -> {"LogicError"}

\* lines 60-67: the epoch is started, r being what m_reader->StartEpoch left
EpochStarted(config, r) ==
    /\ randomizer' = r.rz
    /\ libc' = r.libc
    /\ fault' \in FaultsOf(r.status)
    /\ shim' = [shim EXCEPT !.m_endOfEpoch = IF r.status = "ok" THEN FALSE ELSE @]
    /\ hist' = [started |-> TRUE, restarted |-> hist.started, config |-> config,
                calls |-> 0, delivered |-> <<>>]
    /\ out' = [NoOutput EXCEPT !.op = "start"]
    /\ UNCHANGED <<deserializer, packer, driver, build, transformer, samples, workers>>

\* ReaderShim::StartDistributedMinibatchLoop; m_reader->StartEpoch reaches
\* BlockRandomizer::StartEpoch through BaseTransformer::StartEpoch
StartDistributedMinibatchLoop(epoch, subsetNum, numSubsets, requestedEpochSamples) ==
    LET config == [workerRank |-> subsetNum, numberOfWorkers |-> numSubsets,
                   totalSize |-> requestedEpochSamples, index |-> epoch]
    IN  /\ fault = "none"
        /\ EpochStarted(config,
                        RandomizerStartEpoch([rz |-> randomizer, libc |-> libc, status |-> "ok"],
                                             deserializer.timeline, config))

\* ReaderShim::StartMinibatchLoop
StartMinibatchLoop(epoch, requestedEpochSamples) ==
    StartDistributedMinibatchLoop(epoch, 0, 1, requestedEpochSamples)

RECURSIVE AppendAll(_, _, _)
AppendAll(s, v, i) == IF i >= Size(v) THEN s ELSE AppendAll(Append(s, v[i]), v, i + 1)

\* lines 89-118 with the reader behind them: g is what
\* BlockRandomizer::GetNextSequences returned, rd what
\* FrameModePacker::ReadMinibatch returned, gm what GetMinibatch leaves
Delivered(g, rd, gm) ==
    /\ randomizer' = g.ps.rz
    /\ libc' = g.ps.libc
    /\ fault' \in FaultsOf(g.ps.status)
    /\ IF g.ps.status = "ok"
       THEN /\ deserializer' = g.ds
            /\ packer' = rd.pk
            /\ shim' = gm.sh
            /\ hist' = [hist EXCEPT
                           !.calls = @ + 1,
                           !.delivered = AppendAll(@, g.originalIds, 0)]
            /\ out' = [op |-> "get", ret |-> gm.ret, read |-> gm.read,
                       ids |-> g.ids, originalIds |-> g.originalIds, calls |-> g.calls,
                       matrices |-> gm.matrices, m |-> rd.m]
       ELSE /\ out' = [NoOutput EXCEPT !.op = "get"]
            /\ UNCHANGED <<deserializer, packer, shim, hist>>

\* the packer on what the transformer chain returned, then the shim
Packed(g, rd) == Delivered(g, rd, GetMinibatch(shim, CallerMatrices, rd.m))

\* the transformer chain and the packer on what the randomizer returned
Fetched(g) == Packed(g, ReadMinibatch(packer, TransformerChain(g.result, NumTransformers)))

\* ReaderShim::GetMinibatch with everything it calls: FrameModePacker::
\* ReadMinibatch, the transformer chain, BlockRandomizer::GetNextSequences
GetMinibatchCall ==
    /\ fault = "none"
    /\ hist.started
    /\ UNCHANGED <<driver, build, transformer, samples, workers>>
    /\ IF shim.m_endOfEpoch
       THEN /\ out' = [NoOutput EXCEPT !.op = "get",
                                       !.ret = GetMinibatch(shim, CallerMatrices, NoOutput.m).ret]
            /\ UNCHANGED <<randomizer, libc, deserializer, packer, shim, fault, hist>>
       ELSE Fetched(GetNextSequences([rz |-> randomizer, libc |-> libc, status |-> "ok"],
                                     deserializer, packer.m_mbSize))

\* the job starts any epoch, with its own epoch size and worker layout
Next ==
    \/ \E epoch \in 0 .. MaxEpochIndex :
           StartMinibatchLoop(epoch, driver.requestedEpochSamples)
    \/ \E epoch \in 0 .. MaxEpochIndex :
           StartDistributedMinibatchLoop(epoch, driver.subsetNum, driver.numSubsets,
                                         driver.requestedEpochSamples)
    \/ GetMinibatchCall

Spec == Init /\ [][Next]_vars

\* -------------------------------------------- the randomizer on any corpus
\* lines 53-65: the sequences from position i on pass the test of the lambda
RECURSIVE IsValidFrom(_, _, _)
IsValidFrom(timeline, previous, i) ==
    IF i >= Size(timeline) THEN TRUE
    ELSE LET current == timeline[i]
             result == /\ (previous.id + 1) % SIZE_MOD = current.id
                       /\ previous.chunkId <= current.chunkId
                       /\ current.chunkId <= previous.chunkId + 1
                       /\ 0 < current.numberOfSamples
         IN  result /\ IsValidFrom(timeline, current, i + 1)

\* BlockRandomizer::IsValid
IsValid(timeline) ==
    IsValidFrom(timeline, [id |-> SIZE_MAX, chunkId |-> 0, numberOfSamples |-> 0], 0)

SequenceDescriptions ==
    [id : 0 .. MaxField, chunkId : 0 .. MaxField, numberOfSamples : 0 .. MaxField]

\* timeline.back() of line 257 needs a sequence: no empty timeline
Timelines == UNION {[0 .. n - 1 -> SequenceDescriptions] : n \in 1 .. MaxTimeline}

\* the tables of RandomizeChunks and Randomize are followed on the
\* timelines that are valid and begin in chunk 0
Tabulated(timeline) == IsValid(timeline) /\ timeline[0].chunkId = 0

CorpusInit ==
    \E timeline \in Timelines, W \in Windows, NDEBUG \in BOOLEAN,
       requestedEpochSamples \in TotalSizes :
        /\ build = [NDEBUG |-> NDEBUG]
        /\ driver = [randomizationRangeInSamples |-> W,
                     requestedEpochSamples |-> requestedEpochSamples]
        /\ deserializer = [timeline |-> timeline, required |-> {}]
        /\ randomizer = [m_frameMode |-> Indeterminate]
        /\ libc = [mul |-> 1, inc |-> 1, state |-> 1]
        /\ packer = FrameModePacker(MaxMbSize)
        /\ shim = [m_endOfEpoch |-> Indeterminate]
        /\ fault = "none"
        /\ hist = [constructed |-> FALSE, started |-> FALSE, calls |-> 0]
        /\ out = NoOutput
        /\ NoTransformer

\* BlockRandomizer::BlockRandomizer with the assert of line 255, which ends
\* the process through abort() unless NDEBUG compiled it out; a chunk id
\* above m_numChunks makes line 270 write outside m_chunkInformation
Construct ==
    /\ fault = "none"
    /\ ~hist.constructed
    /\ IF ~build.NDEBUG /\ ~IsValid(deserializer.timeline)
       THEN /\ fault' = "abort"
            /\ UNCHANGED randomizer
       ELSE /\ randomizer' = BlockRandomizer(driver.randomizationRangeInSamples,
                                             deserializer.timeline)
            /\ fault' \in IF \E i \in DOMAIN deserializer.timeline :
                                 deserializer.timeline[i].chunkId >
                                     deserializer.timeline[Size(deserializer.timeline) - 1].chunkId + 1
                          THEN {"none", "trap"} ELSE {"none"}
    /\ hist' = [hist EXCEPT !.constructed = TRUE]
    /\ out' = [NoOutput EXCEPT !.op = "construct"]
    /\ UNCHANGED <<libc, deserializer, packer, shim, driver, build, transformer, samples, workers>>

\* what BlockRandomizer::StartEpoch left: r as RandomizerStartEpoch returned
CorpusEpochStarted(r) ==
    /\ randomizer' = r.rz
    /\ libc' = r.libc
    /\ fault' \in FaultsOf(r.status)

\* BlockRandomizer::StartEpoch with the assert of line 315
StartEpoch(config) ==
    /\ fault = "none"
    /\ hist.constructed
    /\ Tabulated(deserializer.timeline)
    /\ IF ~build.NDEBUG /\ ~randomizer.m_frameMode
       THEN /\ fault' = "abort"
            /\ UNCHANGED <<randomizer, libc>>
       ELSE CorpusEpochStarted(
                RandomizerStartEpoch([rz |-> randomizer, libc |-> libc, status |-> "ok"],
                                     deserializer.timeline, config))
    /\ hist' = [hist EXCEPT !.started = TRUE, !.calls = 0]
    /\ out' = [NoOutput EXCEPT !.op = "start"]
    /\ UNCHANGED <<deserializer, packer, shim, driver, build, transformer, samples, workers>>

\* what BlockRandomizer::GetNextSequences left: g as GetNextSequences returned
CorpusFetched(g) ==
    /\ randomizer' = g.ps.rz
    /\ libc' = g.ps.libc
    /\ fault' \in FaultsOf(g.ps.status)
    /\ deserializer' = IF g.ps.status = "ok" THEN g.ds ELSE deserializer
    /\ out' = IF g.ps.status = "ok"
              THEN [NoOutput EXCEPT !.op = "get", !.read = TRUE, !.ids = g.ids,
                                    !.originalIds = g.originalIds, !.calls = g.calls]
              ELSE [NoOutput EXCEPT !.op = "get"]

\* BlockRandomizer::GetNextSequences called on the randomizer itself
CorpusGetNextSequences(count) ==
    /\ fault = "none"
    /\ hist.started
    /\ hist.calls < MaxTimeline
    /\ CorpusFetched(GetNextSequences([rz |-> randomizer, libc |-> libc, status |-> "ok"],
                                      deserializer, count))
    /\ hist' = [hist EXCEPT !.calls = @ + 1]
    /\ UNCHANGED <<packer, shim, driver, build, transformer, samples, workers>>

CorpusNext ==
    \/ Construct
    \/ \E epoch \in 0 .. MaxEpochIndex :
           StartEpoch([workerRank |-> 0, numberOfWorkers |-> 1,
                       totalSize |-> driver.requestedEpochSamples, index |-> epoch])
    \/ \E count \in 1 .. MaxMbSize : CorpusGetNextSequences(count)

SpecCorpus == CorpusInit /\ [][CorpusNext]_vars

\* ------------------------------------------------ one transformer, one sample
\* the doubles in (0, 1] down to 2^-MaxExponent, and two outside (0, 1]
UnitDoubles ==
    {Double(1, 0)} \cup
    {Double(s, 0 - e) : s \in 2 ^ (MantissaBits - 1) .. 2 ^ MantissaBits - 1,
                        e \in MantissaBits .. MantissaBits + MaxExponent - 1}
ConfigDoubles == {Double(0, 0), Double(1, 0 - 1), Double(3, 0 - 2), Double(1, 0), Double(3, 0 - 1)}

\* values of width, height and channels, up to the largest size_t
ImageDimensions == {0, 1, 3, 2 ^ (SizeBits - 2), SIZE_MAX \div 2, SIZE_MAX}

CropTypes == {<<>>, <<"c", "e", "n", "t", "e", "r">>, <<"C", "e", "n", "t", "e", "r">>,
              <<"R", "A", "N", "D", "O", "M">>, <<"m", "i", "d", "d", "l", "e">>}
JitterTypes == {<<>>, <<"N", "o", "n", "e">>, <<"u", "n", "i", "R", "a", "t", "i", "o">>,
                <<"u", "n", "i", "l", "e", "n", "g", "t", "h">>,
                <<"U", "n", "i", "L", "e", "n", "g", "t", "h">>,
                <<"u", "n", "i", "A", "r", "e", "a">>,
                <<"u", "n", "i", "f", "o", "r", "m">>}

\* what is called: GetCropRect on its own, or Initialize and Apply of a
\* CropTransformer or of a MeanTransformer whose meanFile holds the image file
Calls ==
    [call : {"GetCropRect"}, type : {"Center", "Random"}, seed : {0, 1},
     crow : 1 .. MaxDim, ccol : 1 .. MaxDim, cropRatio : UnitDoubles]
    \cup [call : {"GetCropRect"}, type : {"Center", "Random"}, seed : {0, 1},
          crow : {100}, ccol : {200}, cropRatio : {Double(1, 0 - 1)}]
    \cup [call : {"CropTransformer"}, seed : {0, 1},
          config : [cropType : CropTypes, cropRatio : ConfigDoubles \X ConfigDoubles,
                    jitterType : JitterTypes, hflip : {"", "0", "1"}],
          sample : [width : {MaxDim - 2, MaxDim}, height : {MaxDim - 1}]]
    \cup [call : {"ScaleTransformer"}, seed : {0},
          config : [width : ImageDimensions, height : ImageDimensions,
                    channels : ImageDimensions,
                    interpolations : {<<>>, <<<<"C", "u", "b", "i", "c">>, <<"b", "o", "x">>>>}]]
    \cup UNION {[call : {"MeanTransformer"}, seed : {0},
                 config : [meanFile : {"", "mean.xml"}],
                 file : [rows : {rows}, cols : {cols}, data : [0 .. rows * cols - 1 -> 0 .. 1]],
                 sample : [width : {rows}, height : {cols},
                           data : [0 .. rows * cols - 1 -> 0 .. 1]]] :
                    rows \in 1 .. 2, cols \in 1 .. 2}

\* CropTransformer::Initialize, ScaleTransformer::Initialize or
\* MeanTransformer::Initialize with the configuration of the call
Initialized(call) ==
    CASE call.call = "CropTransformer" -> CropInitFromConfig(call.seed, call.config)
      [] call.call = "ScaleTransformer" -> ScaleInitFromConfig(call.seed, call.config)
      [] call.call = "MeanTransformer" -> MeanInitialize(call.seed, call.config)

ApplyInit ==
    /\ driver \in Calls
    /\ transformer = [status |-> "new"]
    /\ samples = <<>>
    /\ workers = <<>>
    /\ fault = "none"
    /\ hist = [applied |-> 0]
    /\ out = [op |-> "none"]
    /\ build = [NDEBUG |-> TRUE]
    /\ randomizer = Indeterminate
    /\ libc = Indeterminate
    /\ deserializer = Indeterminate
    /\ packer = Indeterminate
    /\ shim = Indeterminate

\* CropTransformer::GetCropRect called with arguments its asserts allow
CallGetCropRect ==
    /\ driver.call = "GetCropRect"
    /\ out.op = "none"
    /\ out' = [op |-> "GetCropRect",
               rect |-> GetCropRect(driver.type, driver.crow, driver.ccol, driver.cropRatio,
                                    Mt19937(driver.seed)).rect]
    /\ UNCHANGED <<reader, fault, driver, hist, build, transformer, samples, workers>>

\* the Initialize of the transformer of the call
Initialize ==
    /\ driver.call \in {"CropTransformer", "ScaleTransformer", "MeanTransformer"}
    /\ transformer.status = "new"
    /\ transformer' = Initialized(driver)
    /\ fault' = IF transformer'.status = "ok" THEN "none" ELSE transformer'.status
    /\ out' = [op |-> "Initialize"]
    /\ UNCHANGED <<reader, driver, hist, build, samples, workers>>

\* what Apply left: a as the transformer's Apply(cv::Mat&) returned, the
\* sample layout of lines 104-105 taken from the matrix
Applied(a) ==
    /\ transformer' = a.tr
    /\ fault' = IF a.status = "ok" THEN "none" ELSE a.status
    /\ samples' = IF a.status = "ok" THEN <<a.mat>> ELSE samples
    /\ out' = [op |-> "Apply", status |-> a.status,
               sampleLayout |-> [width |-> a.mat.cols, height |-> a.mat.rows]]
    /\ hist' = [hist EXCEPT !.applied = @ + 1]

\* BaseTransformer::Apply(sequence, stream, buffer) on the sample of the
\* call: lines 81-82 read the rows of the matrix from the width of the
\* sample layout and its columns from the height
ApplySample ==
    /\ driver.call \in {"CropTransformer", "MeanTransformer"}
    /\ transformer.status = "ok"
    /\ fault = "none"
    /\ hist.applied < 2
    /\ IF driver.call = "CropTransformer"
       THEN Applied(CropApply(transformer,
                              [rows |-> driver.sample.width, cols |-> driver.sample.height,
                               x |-> 0, y |-> 0, flipped |-> FALSE]))
       ELSE Applied(MeanApply(transformer,
                              [rows |-> driver.sample.width, cols |-> driver.sample.height,
                               data |-> driver.sample.data]))
    /\ UNCHANGED <<reader, driver, build, workers>>

ApplyNext == CallGetCropRect \/ Initialize \/ ApplySample

SpecApply == ApplyInit /\ [][ApplyNext]_vars

\* ------------------------------------- the parallel loop of a transformer
\* GetSizeByType of ElementTypeUtils.h
GetSizeByType(type) ==
    CASE type = "tfloat" -> 4 [] type = "tdouble" -> 8 [] type = "tatom" -> 1

\* the streams the chain declares: the feature stream, then the others
Streams ==
    [j \in 0 .. NumStreams - 1 |->
        [elementType |-> IF j = 0 THEN "tfloat" ELSE "tdouble", numElements |-> 1]]

\* lines 443-444 and line 486: the bytes of one sample of a stream
dimensions(stream) == stream.numElements * GetSizeByType(stream.elementType)

\* what m_next->GetNextSequences returns as batch number b: count samples,
\* one payload per stream, the image of the feature stream not yet cropped
Upstream(b, count, sample) ==
    [i \in 0 .. count - 1 |->
        [j \in 0 .. NumStreams - 1 |->
            IF j = 0
            THEN [id |-> b * MaxMbSize + i, width |-> sample.width, height |-> sample.height,
                  x |-> 0, y |-> 0, flipped |-> FALSE]
            ELSE [id |-> b * MaxMbSize + i]]]

\* BaseTransformer::Apply(sequence, stream, buffer) around lines 170-193 of
\* CropTransformer::Apply: the matrix of lines 81-100, the result of 103-107
ApplyToSequence(tr, sequence, rng) ==
    [rng |-> CropWith(tr, [rows |-> sequence.width, cols |-> sequence.height,
                           x |-> sequence.x, y |-> sequence.y,
                           flipped |-> sequence.flipped], rng).rng,
     sequence |->
        [id |-> sequence.id,
         width |-> CropWith(tr, [rows |-> sequence.width, cols |-> sequence.height,
                                 x |-> sequence.x, y |-> sequence.y,
                                 flipped |-> sequence.flipped], rng).mat.cols,
         height |-> CropWith(tr, [rows |-> sequence.width, cols |-> sequence.height,
                                  x |-> sequence.x, y |-> sequence.y,
                                  flipped |-> sequence.flipped], rng).mat.rows,
         x |-> CropWith(tr, [rows |-> sequence.width, cols |-> sequence.height,
                             x |-> sequence.x, y |-> sequence.y,
                             flipped |-> sequence.flipped], rng).mat.x,
         y |-> CropWith(tr, [rows |-> sequence.width, cols |-> sequence.height,
                             x |-> sequence.x, y |-> sequence.y,
                             flipped |-> sequence.flipped], rng).mat.y,
         flipped |-> CropWith(tr, [rows |-> sequence.width, cols |-> sequence.height,
                                   x |-> sequence.x, y |-> sequence.y,
                                   flipped |-> sequence.flipped], rng).mat.flipped]]

\* the loop of lines 61-74 run by one thread, from sample i on
RECURSIVE OneThread(_, _, _)
OneThread(tr, data, i) ==
    IF i >= Size(data) THEN [tr |-> tr, data |-> data]
    ELSE OneThread(
             [PopOrCreate(tr).tr EXCEPT
                 !.m_rngs = Append(@, ApplyToSequence(tr, data[i][0], PopOrCreate(tr).rng).rng)],
             [data EXCEPT ![i][0] = ApplyToSequence(tr, data[i][0], PopOrCreate(tr).rng).sequence],
             i + 1)

\* std::copy of lines 451-454: the bytes of source go to dims * i and on
CopySample_front(buffer, source, dims, i) ==
    [k \in DOMAIN buffer |->
        IF k < dims THEN [data |-> source, byte |-> k] ELSE buffer[k]]

CopySample(buffer, source, dims, i) ==
    [k \in DOMAIN buffer |->
        IF k >= dims * i /\ k < dims * i + dims
        THEN [data |-> source, byte |-> k - dims * i]
        ELSE buffer[k]]

\* the loop of line 438 for the stream j, from sample i on
RECURSIVE CopyStream(_, _, _, _, _)
CopyStream(buffer, data, j, dims, i) ==
    IF i >= Size(data) THEN buffer
    ELSE CopyStream(CopySample(buffer, data[i][j], dims, i), data, j, dims, i + 1)

\* AllocateBuffer(numElements, elementSize): memory that is not initialized
AllocateBuffer(numElements, elementSize) ==
    [k \in 0 .. numElements * elementSize - 1 |-> Indeterminate]

\* FrameModePacker::FrameModePacker with its buffers as bytes: inputStreams
\* is what m_transformer->GetStreams() returns, streams the argument
PackerOf(inputStreams, minibatchSize, streams) ==
    [m_mbSize |-> minibatchSize,
     m_inputStreams |-> inputStreams,
     m_outputStreams |-> streams,
     m_streamBuffers |->
        [j \in DOMAIN streams |->
            AllocateBuffer(minibatchSize * streams[j].numElements,
                           GetSizeByType(streams[j].elementType))]]

\* lines 438-455: every sample of every stream copied
CopyImages(pk, data) ==
    [pk EXCEPT !.m_streamBuffers =
        [j \in DOMAIN @ |-> CopyStream(@[j], data, j, dimensions(pk.m_inputStreams[j]), 0)]]

\* lines 477-492: the streams of the minibatch
StreamsOf(pk, n) ==
    IF n = 0 THEN Empty
    ELSE [j \in DOMAIN pk.m_outputStreams |->
             [dataSize |-> n * dimensions(pk.m_outputStreams[j])]]

TransformInit ==
    \E threads \in 1 .. MaxThreads, seed \in {0},
       config \in [cropType : {<<>>, <<"r", "a", "n", "d", "o", "m">>},
                   cropRatio : {<<Double(1, 0 - 1), Double(1, 0 - 1)>>},
                   jitterType : {<<>>}, hflip : {""}] :
        /\ driver = [threads |-> threads, sample |-> [width |-> 3, height |-> 2]]
        /\ transformer = CropInitFromConfig(seed, config)
        /\ samples = [m_endOfEpoch |-> FALSE, m_data |-> Empty, input |-> Empty]
        /\ workers = [t \in 1 .. threads |->
                         [pc |-> "idle", i |-> 0, rng |-> [state |-> Indeterminate], ptr |-> Indeterminate]]
        /\ hist = [phase |-> "idle", batches |-> 0, next |-> 0, done |-> {}, overtaken |-> FALSE,
                   created |-> 0, pooled |-> <<>>,
                   oneThread |-> [tr |-> CropInitFromConfig(seed, config), data |-> Empty]]
        /\ packer = PackerOf(Streams, MaxMbSize, Streams)
        /\ out = [op |-> "none"]
        /\ fault = "none"
        /\ build = [NDEBUG |-> TRUE]
        /\ randomizer = Indeterminate
        /\ libc = Indeterminate
        /\ deserializer = Indeterminate
        /\ shim = Indeterminate

\* BaseTransformer::GetNextSequences, lines 50-58: the batch of m_next,
\* which is short of the count asked for only at the end of the epoch,
\* returned as it is when m_endOfEpoch is set; hist.oneThread is the same
\* batch as one thread would transform it after the batches before
Pull(count, endOfEpoch) ==
    /\ hist.phase = "idle"
    /\ hist.batches < MaxBatches
    /\ count = packer.m_mbSize \/ endOfEpoch
    /\ samples' = [m_endOfEpoch |-> endOfEpoch,
                   m_data |-> Upstream(hist.batches, count, driver.sample),
                   input |-> Upstream(hist.batches, count, driver.sample)]
    /\ hist' = [hist EXCEPT
                   !.phase = IF endOfEpoch THEN "return" ELSE "loop",
                   !.next = 0,
                   !.done = {},
                   !.overtaken = FALSE,
                   !.oneThread = IF endOfEpoch THEN [@ EXCEPT !.data = Empty]
                                 ELSE OneThread(@.tr, Upstream(hist.batches, count, driver.sample), 0)]
    /\ out' = [op |-> "GetNextSequences"]
    /\ UNCHANGED <<randomizer, libc, deserializer, packer, shim, fault, driver, build,
                   transformer, workers>>

\* schedule(dynamic) of line 60: a thread without work takes the next index
Take(t) ==
    /\ hist.phase = "loop"
    /\ workers[t].pc = "idle"
    /\ hist.next < Size(samples.m_data)
    /\ workers' = [workers EXCEPT ![t].pc = "pop", ![t].i = hist.next]
    /\ hist' = [hist EXCEPT !.next = @ + 1]
    /\ UNCHANGED <<reader, fault, driver, out, build, transformer, samples>>

\* lines 164-168: the thread pops a generator from m_rngs or creates one.
\* A generator is a std::mt19937 on the heap, owned through a unique_ptr:
\* ptr names the object (the count of make_unique calls before its own),
\* hist.pooled the objects of m_rngs, entry by entry.
Pop(t) ==
    /\ workers[t].pc = "pop"
    /\ workers' = [workers EXCEPT
                      ![t].pc = "apply",
                      ![t].rng = PopOrCreate(transformer).rng,
                      ![t].ptr = IF Len(transformer.m_rngs) = 0 THEN hist.created
                                 ELSE hist.pooled[Len(hist.pooled)]]
    /\ transformer' = PopOrCreate(transformer).tr
    /\ hist' = [hist EXCEPT
                   !.created = IF Len(transformer.m_rngs) = 0 THEN @ + 1 ELSE @,
                   !.pooled = SubSeq(@, 1, Len(PopOrCreate(transformer).tr.m_rngs))]
    /\ UNCHANGED <<reader, fault, driver, out, build, samples>>

\* lines 170-195 and line 72: the thread transforms its sample, stores the
\* result at the index of the sample and pushes the generator back, which
\* leaves its rng empty; hist.overtaken tells that a sample was finished
\* before one of a smaller index
ApplyAndPush(t) ==
    /\ workers[t].pc = "apply"
    /\ samples' = [samples EXCEPT !.m_data[workers[t].i][0] =
                      ApplyToSequence(transformer, @, workers[t].rng).sequence]
    /\ transformer' = [transformer EXCEPT !.m_rngs =
                          Append(@, ApplyToSequence(transformer,
                                                    samples.m_data[workers[t].i][0],
                                                    workers[t].rng).rng)]
    /\ workers' = [workers EXCEPT ![t] = [pc |-> "idle", i |-> 0,
                                          rng |-> [state |-> Indeterminate], ptr |-> Indeterminate]]
    /\ hist' = [hist EXCEPT !.done = @ \cup {workers[t].i},
                            !.overtaken = @ \/ \E i \in 0 .. workers[t].i - 1 : i \notin hist.done,
                            !.pooled = Append(@, workers[t].ptr)]
    /\ UNCHANGED <<reader, fault, driver, out, build>>

\* FrameModePacker::ReadMinibatch on the batch the transformer returns once
\* every thread has left the loop: lines 438-455 copy the bytes of sample i
\* of stream j, lines 482-492 describe the streams
Pack ==
    /\ \/ hist.phase = "return"
       \/ /\ hist.phase = "loop"
          /\ hist.next = Size(samples.m_data)
          /\ \A t \in DOMAIN workers : workers[t].pc = "idle"
    /\ packer' = CopyImages(packer, samples.m_data)
    /\ out' = [op |-> "ReadMinibatch",
               m |-> [atEndOfEpoch |-> samples.m_endOfEpoch,
                      minibatch |-> StreamsOf(packer, Size(samples.m_data))]]
    /\ hist' = [hist EXCEPT !.phase = "idle", !.batches = @ + 1]
    /\ UNCHANGED <<randomizer, libc, deserializer, shim, fault, driver, build,
                   transformer, samples, workers>>

TransformNext ==
    \/ \E count \in 0 .. MaxMbSize, endOfEpoch \in BOOLEAN : Pull(count, endOfEpoch)
    \/ \E t \in DOMAIN workers : Take(t)
    \/ \E t \in DOMAIN workers : Pop(t)
    \/ \E t \in DOMAIN workers : ApplyAndPush(t)
    \/ Pack

SpecTransform == TransformInit /\ [][TransformNext]_vars

\* ------------------------------------------------- the packer on any streams
\* the descriptions of a feature stream
StreamDescriptions == [elementType : {"tfloat", "tdouble"}, numElements : 1 .. MaxElements]

\* the feature stream as described, then the streams that are the same on
\* both sides of the packer
WithFeatures(description) ==
    [j \in 0 .. NumStreams - 1 |-> IF j = 0 THEN description ELSE Streams[j]]

\* a packer constructed on a transformer whose streams are inputStreams,
\* for the streams the reader was configured with
PackInit ==
    \E input \in StreamDescriptions, output \in StreamDescriptions, mb \in 1 .. MaxMbSize :
        /\ packer = PackerOf(WithFeatures(input), mb, WithFeatures(output))
        /\ samples = [m_endOfEpoch |-> FALSE, m_data |-> Empty]
        /\ hist = [batches |-> 0]
        /\ out = [op |-> "none"]
        /\ fault = "none"
        /\ build = [NDEBUG |-> TRUE]
        /\ driver = Indeterminate
        /\ transformer = [status |-> "none"]
        /\ workers = <<>>
        /\ randomizer = Indeterminate
        /\ libc = Indeterminate
        /\ deserializer = Indeterminate
        /\ shim = Indeterminate

\* the bytes lines 451-454 write past the end of the buffer of stream j
Overrun(pk, data, j) ==
    {k \in 0 .. Size(data) * dimensions(pk.m_inputStreams[j]) - 1 :
        k >= Size(pk.m_streamBuffers[j])}

\* FrameModePacker::ReadMinibatch, the transformer returning count samples
\* of the m_mbSize asked for, fewer only at the end of the epoch.  Bytes written outside a buffer land in memory
\* the packer does not own: the process stops there or goes on.
ReadBatch(count, endOfEpoch) ==
    /\ fault = "none"
    /\ hist.batches < MaxBatches
    /\ count <= packer.m_mbSize
    /\ count = packer.m_mbSize \/ endOfEpoch
    /\ samples' = [m_endOfEpoch |-> endOfEpoch,
                   m_data |-> [i \in 0 .. count - 1 |->
                                  [j \in 0 .. NumStreams - 1 |->
                                      [id |-> hist.batches * MaxMbSize + i]]]]
    /\ packer' = CopyImages(packer, samples'.m_data)
    /\ out' = [op |-> "ReadMinibatch",
               m |-> [atEndOfEpoch |-> endOfEpoch, minibatch |-> StreamsOf(packer, count)]]
    /\ fault' \in IF \E j \in 0 .. NumStreams - 1 : Overrun(packer, samples'.m_data, j) # {}
                  THEN {"none", "SIGSEGV"}
                  ELSE {"none"}
    /\ hist' = [hist EXCEPT !.batches = @ + 1]
    /\ UNCHANGED <<randomizer, libc, deserializer, shim, driver, build, transformer, workers>>

PackNext ==
    \E count \in 0 .. MaxMbSize, endOfEpoch \in BOOLEAN : ReadBatch(count, endOfEpoch)

SpecPack == PackInit /\ [][PackNext]_vars

\* ---------------------------------------------------------------- claims
\* StartEpoch has returned, so Randomize() has completed for m_sweep
Randomized == fault = "none" /\ hist.started

\* the randomized chunk that owns position i of the randomized timeline
chunkOf(i) ==
    CHOOSE c \in 0 .. randomizer.m_numChunks - 1 :
        /\ randomizer.m_randomizedChunks[c].sequencePositionStart <= i
        /\ i < randomizer.m_randomizedChunks[c + 1].sequencePositionStart

\* C1: after Randomize() has completed, the randomized chunk id carried by
\* the sequence at every position i lies in the window
\* [windowbegin, windowend) of the randomized chunk that owns i.
C1_Locality ==
    Randomized =>
        \A i \in DOMAIN randomizer.m_randomTimeline :
            /\ randomizer.m_randomizedChunks[chunkOf(i)].windowbegin
                   <= randomizer.m_randomTimeline[i].chunkId
            /\ randomizer.m_randomTimeline[i].chunkId
                   < randomizer.m_randomizedChunks[chunkOf(i)].windowend

\* a completed shuffle that moved a sequence out of its chunk although some
\* chunk's window ends before the last chunk
C1_Witness ==
    /\ Randomized
    /\ \E i \in DOMAIN randomizer.m_randomTimeline :
           randomizer.m_randomTimeline[i].chunkId # chunkOf(i)
    /\ \E c \in 0 .. randomizer.m_numChunks - 1 :
           randomizer.m_randomizedChunks[c].windowend < randomizer.m_numChunks

\* C2: after Randomize() has completed for any sweep, the randomized
\* timeline holds every sequence id of the corpus timeline exactly once.
C2_Permutation ==
    Randomized =>
        /\ Size(randomizer.m_randomTimeline) = Size(deserializer.timeline)
        /\ \A s \in DOMAIN deserializer.timeline :
               Cardinality({i \in DOMAIN randomizer.m_randomTimeline :
                               randomizer.m_randomTimeline[i].id = deserializer.timeline[s].id}) = 1

\* a completed shuffle of a later sweep that is not the corpus order
C2_Witness ==
    /\ Randomized
    /\ randomizer.m_sweep >= 1
    /\ \E i \in DOMAIN randomizer.m_randomTimeline : randomizer.m_randomTimeline[i].id # i

\* samples of the physical chunks in the set
RECURSIVE SamplesOf(_)
SamplesOf(chunks) ==
    IF chunks = {} THEN 0
    ELSE LET k == CHOOSE x \in chunks : TRUE
         IN  (randomizer.m_chunkInformation[k + 1].samplePositionStart
                  - randomizer.m_chunkInformation[k].samplePositionStart)
             + SamplesOf(chunks \ {k})

\* the last operation was a GetNextSequences call that selected sequences
Selected == Randomized /\ out.op = "get" /\ Size(out.ids) > 0

\* the randomized chunks of the first and of the last position selected
firstChunk == randomizer.m_sequencePositionToChunkIndex[out.ids[0]]
lastChunk == randomizer.m_sequencePositionToChunkIndex[out.ids[Size(out.ids) - 1]]

\* C3 as stated: the chunks required and not released hold at most W
\* samples, whatever the count and whatever W.
C3_BoundedResidency ==
    Randomized =>
        SamplesOf(deserializer.required) <= randomizer.m_randomizationRangeInSamples

\* C3: after a GetNextSequences call that selected sequences, the chunks
\* required and not released are those of the window that starts at the
\* windowbegin of the first selected position's chunk and ends at the
\* windowend of the last one's; when both positions lie in one randomized
\* chunk they hold at most W samples, or the samples of the first
\* randomized chunk of the sweep if that is more.
C3_WindowResidency ==
    Selected =>
        /\ deserializer.required =
               {randomizer.m_randomizedChunks[c].originalChunkIndex :
                   c \in {x \in 0 .. randomizer.m_numChunks - 1 :
                             /\ randomizer.m_randomizedChunks[firstChunk].windowbegin <= x
                             /\ x < randomizer.m_randomizedChunks[lastChunk].windowend}}
        /\ firstChunk = lastChunk =>
               SamplesOf(deserializer.required) <=
                   Max({randomizer.m_randomizationRangeInSamples,
                        randomizer.m_randomizedChunks[1].samplePositionStart
                            - randomizer.m_randomizedChunks[0].samplePositionStart})

\* a call within one chunk of a corpus of several chunks, after which some
\* chunk is resident and some chunk is not
C3_Witness ==
    /\ Selected
    /\ firstChunk = lastChunk
    /\ deserializer.required # {}
    /\ Cardinality(deserializer.required) < randomizer.m_numChunks

\* a BlockRandomizer just constructed on the corpus, in a process whose
\* generator was never seeded
FreshProcess ==
    [rz |-> BlockRandomizer(randomizer.m_randomizationRangeInSamples, deserializer.timeline),
     libc |-> [libc EXCEPT !.state = 1],
     status |-> "ok"]

\* a fresh instance after the StartEpoch of its first epoch, which starts
\* at the first sample of the sweep
StartedAt(sweep) ==
    RandomizerStartEpoch(FreshProcess, deserializer.timeline,
                         [workerRank |-> 0, numberOfWorkers |-> 1,
                          totalSize |-> requestDataSize, index |-> sweep])

\* the randomizer of that instance
RandomizedFor(sweep) == StartedAt(sweep).rz

\* the current instance after RandomizeIfNewSweepIsEntered
RolledOver ==
    RandomizeIfNewSweepIsEntered([rz |-> randomizer, libc |-> libc, status |-> "ok"],
                                 deserializer.timeline)

\* the sequence at a global sample position (frame mode): its description
\* in the randomized timeline of the sweep the position lies in
SequenceAt(position) ==
    RandomizedFor(position \div randomizer.m_numSamples)
        .m_randomTimeline[position % randomizer.m_numSamples]

\* the global sample position the current epoch started at
epochStart == randomizer.m_epochSize * hist.config.index

\* the ids, in order, of the sequences at positions p .. end - 1 whose
\* randomized chunk id is the worker's modulo the number of workers
RECURSIVE OwnedIds(_, _, _, _)
OwnedIds(p, end, workerRank, numberOfWorkers) ==
    IF p >= end THEN <<>>
    ELSE (IF (SequenceAt(p).chunkId % numberOfWorkers) = workerRank
          THEN <<SequenceAt(p).id>> ELSE <<>>)
         \o OwnedIds(p + 1, end, workerRank, numberOfWorkers)

\* C4: for N workers the sequences delivered to worker r in an epoch are,
\* in order, those at the epoch's consumed positions p whose randomized
\* chunk id mod N is r, so that the workers' deliveries are disjoint and
\* their union is the single worker's delivery.
C4_Partitioning ==
    Randomized =>
        hist.delivered = OwnedIds(epochStart, epochStart + randomizer.m_samplePositionInEpoch,
                                  hist.config.workerRank, hist.config.numberOfWorkers)

\* C5: for a single worker and an epoch that starts at global sample
\* position g, the k-th sequence delivered is the one at position
\* (g+k) mod numSamples of the randomized timeline of sweep
\* (g+k) div numSamples, for every batch size.
C5_TimelineOrder ==
    (Randomized /\ hist.config.numberOfWorkers = 1) =>
        \A k \in 0 .. Len(hist.delivered) - 1 :
            hist.delivered[k + 1] = SequenceAt(epochStart + k).id

\* the shim has latched the end of the current epoch
EpochEnded == Randomized /\ shim.m_endOfEpoch = TRUE

\* C6: in an epoch started with totalSize = requestDataSize for a single
\* worker, whatever the epoch index and the minibatch size, no sequence id
\* is delivered twice, and once the end of the epoch is reported every
\* sequence id of the corpus has been delivered: numSamples sequences.
C6_OneSweepEpoch ==
    (Randomized /\ hist.config.totalSize = requestDataSize
                /\ hist.config.numberOfWorkers = 1) =>
        /\ \A j, k \in 1 .. Len(hist.delivered) :
               hist.delivered[j] = hist.delivered[k] => j = k
        /\ EpochEnded =>
               /\ Len(hist.delivered) = randomizer.m_numSamples
               /\ {hist.delivered[k] : k \in 1 .. Len(hist.delivered)} =
                      {deserializer.timeline[i].id : i \in DOMAIN deserializer.timeline}

\* a one-sweep epoch of a later sweep that ended with a partial minibatch,
\* started after an earlier epoch, and delivered out of corpus order
C6_Witness ==
    /\ EpochEnded
    /\ hist.restarted
    /\ hist.config.totalSize = requestDataSize
    /\ hist.config.numberOfWorkers = 1
    /\ hist.config.index >= 1
    /\ Len(hist.delivered) = 3
    /\ packer.m_mbSize = 2
    /\ \E k \in 1 .. Len(hist.delivered) : hist.delivered[k] # k - 1

\* chunk order, windows, position index and timeline of a randomizer
Shuffle(rz) ==
    <<rz.m_randomizedChunks, rz.m_sequencePositionToChunkIndex, rz.m_randomTimeline>>

\* C7: whatever the instance executed before, its randomized chunk order,
\* its windows and its randomTimeline are those a fresh instance on the
\* same corpus and range produces for the same sweep index.
C7_Determinism ==
    Randomized => Shuffle(randomizer) = Shuffle(RandomizedFor(randomizer.m_sweep))

\* an instance that was restarted, rolled over into a later sweep while
\* delivering, and holds a timeline that is not the corpus order
C7_Witness ==
    /\ Randomized
    /\ hist.restarted
    /\ hist.calls > 0
    /\ randomizer.m_sweep > epochStart \div randomizer.m_numSamples
    /\ randomizer.m_numChunks > 1
    /\ \E i \in DOMAIN randomizer.m_randomTimeline : randomizer.m_randomTimeline[i].id # i

\* sweep index, sweepStartInSamples, randomized chunks, randomTimeline and
\* in-sweep cursor of a randomizer
SweepState(rz) ==
    <<rz.m_sweep, rz.m_sweepStartInSamples, rz.m_randomizedChunks,
      rz.m_randomTimeline, rz.m_sequencePositionInSweep>>

\* a fresh instance after StartEpoch(config) and the given number of
\* GetNextSequences calls: the process, the deserializer, the ids delivered
RECURSIVE FreshRun(_, _)
FreshRun(config, calls) ==
    IF calls = 0
    THEN [ps |-> RandomizerStartEpoch(FreshProcess, deserializer.timeline, config),
          ds |-> [timeline |-> deserializer.timeline, required |-> {}],
          delivered |-> <<>>]
    ELSE LET before == FreshRun(config, calls - 1)
             g == GetNextSequences(before.ps, before.ds, packer.m_mbSize)
         IN  [ps |-> g.ps, ds |-> g.ds,
              delivered |-> AppendAll(before.delivered, g.originalIds, 0)]

\* two calls that end alike, and in the same sweep state if they return
SameOutcome(r, f) ==
    /\ r.status = f.status
    /\ r.status = "ok" => SweepState(r.rz) = SweepState(f.rz)

\* the current epoch went as the fresh run did
SameRun(fresh) ==
    /\ hist.delivered = fresh.delivered
    /\ SweepState(randomizer) = SweepState(fresh.ps.rz)

\* C8: RandomizeIfNewSweepIsEntered rolling over into sweep k returns when
\* StartEpoch at global sample position k * numSamples returns, and then
\* reaches the same state; and an epoch restarted after any history has the
\* randomizer state and the deliveries of that epoch on a fresh instance.
C8_SweepClosure ==
    Randomized =>
        /\ randomizer.m_sequencePositionInSweep >= randomizer.m_numSequences =>
               SameOutcome(RolledOver, StartedAt(randomizer.m_sweep + 1))
        /\ SameRun(FreshRun(hist.config, hist.calls))

\* a restarted epoch that has delivered up to the last position of a sweep
\* of a corpus of several chunks, out of corpus order
C8_Witness ==
    /\ Randomized
    /\ hist.restarted
    /\ hist.calls > 0
    /\ randomizer.m_sequencePositionInSweep >= randomizer.m_numSequences
    /\ randomizer.m_numChunks > 1
    /\ RolledOver.status = "ok"
    /\ \E i \in DOMAIN RolledOver.rz.m_randomTimeline : RolledOver.rz.m_randomTimeline[i].id # i

\* what a GetMinibatch call returned (o) when the epoch budget ran out in
\* the middle of its batch: at least one sequence, fewer than minibatchSize
PartialTerminal(o, rz, pk) ==
    /\ o.op = "get"
    /\ o.read
    /\ Size(o.ids) >= 1
    /\ Size(o.ids) < pk.m_mbSize
    /\ rz.m_samplePositionInEpoch >= rz.m_epochSize

\* C9: when the budget runs out in the middle of a batch, ReadMinibatch
\* returns atEndOfEpoch = true with a minibatch of exactly the remaining
\* samples, column i of every stream holding sample i, and GetMinibatch
\* returns true; the next GetMinibatch call returns false, reads nothing
\* and leaves the caller's matrices as they were.
C9_PartialTerminalMinibatch ==
    [][/\ PartialTerminal(out', randomizer', packer') =>
              /\ out'.m.atEndOfEpoch
              /\ Size(out'.m.minibatch) = NumStreams
              /\ \A j \in DOMAIN out'.m.minibatch :
                     /\ out'.m.minibatch[j].numCols = Size(out'.ids)
                     /\ \A i \in DOMAIN out'.ids :
                            out'.m.minibatch[j].data[i].id = out'.originalIds[i]
              /\ hist'.config.numberOfWorkers = 1 =>
                     Len(hist'.delivered) = randomizer'.m_epochSize
              /\ out'.ret
       /\ (PartialTerminal(out, randomizer, packer) /\ out'.op = "get") =>
              /\ ~out'.ret
              /\ ~out'.read
              /\ Size(out'.m.minibatch) = 0
              /\ out'.matrices = CallerMatrices]_vars

\* a partial terminal minibatch of a restarted epoch was returned
C9_Witness ==
    /\ Randomized
    /\ hist.restarted
    /\ PartialTerminal(out, randomizer, packer)
    /\ out.ret
    /\ Size(out.m.minibatch) = NumStreams

\* C10: GetMinibatch returns true exactly when it read a minibatch with at
\* least one stream; a read that reports atEndOfEpoch sets the latch; with
\* the latch set GetMinibatch returns false without reading and the latch
\* stays; StartMinibatchLoop and StartDistributedMinibatchLoop clear it, and
\* with the latch clear GetMinibatch reads.
C10_EndOfEpochLatch ==
    [][/\ (out'.op = "get" /\ fault' = "none") =>
              (out'.ret <=> (out'.read /\ Size(out'.m.minibatch) > 0))
       /\ (out'.op = "get" /\ out'.read /\ out'.m.atEndOfEpoch) =>
              shim'.m_endOfEpoch = TRUE
       /\ (EpochEnded /\ out'.op = "get") =>
              (~out'.read /\ ~out'.ret /\ shim'.m_endOfEpoch = TRUE)
       /\ (out'.op = "start" /\ fault' = "none") => shim'.m_endOfEpoch = FALSE
       /\ (Randomized /\ ~EpochEnded /\ out'.op = "get" /\ fault' = "none") =>
              out'.read]_vars

\* a call refused by the latch, in an epoch whose start cleared the latch
\* the epoch before had set
C10_Witness ==
    /\ EpochEnded
    /\ hist.restarted
    /\ out.op = "get"
    /\ ~out.read
    /\ ~out.ret

\* the last operation was a GetMinibatch call that reached
\* BlockRandomizer::GetNextSequences and returned
Fetch == Randomized /\ out.op = "get" /\ out.read

\* C11: a GetNextSequences(count) call returns at most count sequences, all
\* in randomized chunks of the calling worker; it returns fewer than count
\* only with endOfEpoch set, and sets endOfEpoch only when the samples
\* charged to the epoch have reached epochSize.
C11_BatchAndFlag ==
    Fetch =>
        /\ Size(out.ids) <= packer.m_mbSize
        /\ \A i \in DOMAIN out.ids :
               (randomizer.m_randomTimeline[out.ids[i]].chunkId % randomizer.m_numberOfWorkers)
                   = randomizer.m_workerRank
        /\ Size(out.ids) < packer.m_mbSize => out.m.atEndOfEpoch
        /\ out.m.atEndOfEpoch =>
               randomizer.m_samplePositionInEpoch >= randomizer.m_epochSize

\* the randomized chunks of the window the last call spanned
unionWindow ==
    {c \in 0 .. randomizer.m_numChunks - 1 :
        /\ randomizer.m_randomizedChunks[firstChunk].windowbegin <= c
        /\ c < randomizer.m_randomizedChunks[lastChunk].windowend}

\* the position of physical chunk k in the randomized chunk sequence
randomizedPosition(k) ==
    CHOOSE c \in 0 .. randomizer.m_numChunks - 1 :
        randomizer.m_randomizedChunks[c].originalChunkIndex = k

\* C12: a GetNextSequences call that selects a sequence makes, before
\* GetSequencesById, exactly one deserializer call per physical chunk k:
\* RequireChunk(k) if the randomized position of k lies in the window from
\* the windowbegin of the first selected position's chunk to the windowend
\* of the last one's, ReleaseChunk(k) otherwise; afterwards the required
\* chunks are exactly those of that window.
C12_ChunkLifecycle ==
    Selected =>
        /\ Size(out.calls) = randomizer.m_numChunks + 1
        /\ out.calls[randomizer.m_numChunks].call = "GetSequencesById"
        /\ \A k \in 0 .. randomizer.m_numChunks - 1 :
               /\ Cardinality({i \in 0 .. randomizer.m_numChunks - 1 :
                                  out.calls[i].chunk = k}) = 1
               /\ \A i \in 0 .. randomizer.m_numChunks - 1 :
                      out.calls[i].chunk = k =>
                          out.calls[i].call = IF randomizedPosition(k) \in unionWindow
                                              THEN "RequireChunk" ELSE "ReleaseChunk"
        /\ deserializer.required =
               {k \in 0 .. randomizer.m_numChunks - 1 : randomizedPosition(k) \in unionWindow}

\* a call that required a chunk it did not hold and released one it held
C12_Witness ==
    /\ Selected
    /\ hist.calls > 1
    /\ \E i, j \in 0 .. randomizer.m_numChunks - 1 :
           /\ out.calls[i].call = "RequireChunk"
           /\ out.calls[j].call = "ReleaseChunk"

\* RandomizeChunks has filled the table of randomized chunks (the shuffle
\* that follows it may still have failed)
WindowsComputed == hist.started /\ Size(randomizer.m_randomizedChunks) = randomizer.m_numChunks + 1

sampleStart(c) == randomizer.m_randomizedChunks[c].samplePositionStart

halfWindow == randomizer.m_randomizationRangeInSamples \div 2

\* the indices e whose successor starts less than W/2 samples after chunk c
EndsWithin(c) ==
    {e \in 0 .. randomizer.m_numChunks - 1 :
        sampleStart(e + 1) >= sampleStart(c) /\ sampleStart(e + 1) - sampleStart(c) < halfWindow}

\* windowbegin(c) is the smallest index <= c within W/2 samples before c
SmallestBegin(c) ==
    LET wb == randomizer.m_randomizedChunks[c].windowbegin
    IN  /\ wb <= c
        /\ sampleStart(c) - sampleStart(wb) <= halfWindow
        /\ \A b \in 0 .. c : sampleStart(c) - sampleStart(b) <= halfWindow => wb <= b

\* C20: for every randomized chunk c, windowbegin(c) is the smallest index
\* <= c with sampleStart(c) - sampleStart(windowbegin) <= W/2, and
\* windowend(c) is the largest index with
\* sampleStart(windowend + 1) - sampleStart(c) < W/2, for every layout and W.
C20_WindowDefinition ==
    WindowsComputed =>
        \A c \in 0 .. randomizer.m_numChunks - 1 :
            /\ SmallestBegin(c)
            /\ randomizer.m_randomizedChunks[c].windowend \in EndsWithin(c)
            /\ \A e \in EndsWithin(c) : e <= randomizer.m_randomizedChunks[c].windowend

\* C20 as the tables are built: windowbegin(c) as stated; windowend(c) is an
\* exclusive end, one more than the largest index e with
\* 0 <= sampleStart(e + 1) - sampleStart(c) < W/2, and never less than the
\* windowend of chunk c - 1 (1 for chunk 0).
C20_ExclusiveWindowEnd ==
    WindowsComputed =>
        \A c \in 0 .. randomizer.m_numChunks - 1 :
            /\ SmallestBegin(c)
            /\ randomizer.m_randomizedChunks[c].windowend =
                   Max({IF c = 0 THEN 1 ELSE randomizer.m_randomizedChunks[c - 1].windowend}
                           \cup {e + 1 : e \in EndsWithin(c)})

\* tables in which both loops moved a bound and a window ends before the
\* last chunk
C20_Witness ==
    /\ WindowsComputed
    /\ \E c \in 0 .. randomizer.m_numChunks - 1 :
           randomizer.m_randomizedChunks[c].windowbegin > 0
    /\ \E c \in 0 .. randomizer.m_numChunks - 1 :
           /\ randomizer.m_randomizedChunks[c].windowend >
                  (IF c = 0 THEN 1 ELSE randomizer.m_randomizedChunks[c - 1].windowend)
           /\ randomizer.m_randomizedChunks[c].windowend < randomizer.m_numChunks

\* the three conditions on a corpus timeline: ids 0,1,2,..., chunk ids
\* stepping by 0 or 1, no sequence without samples
WellFormed(timeline) ==
    \A i \in DOMAIN timeline :
        /\ timeline[i].id = i
        /\ i > 0 => /\ timeline[i - 1].chunkId <= timeline[i].chunkId
                    /\ timeline[i].chunkId <= timeline[i - 1].chunkId + 1
        /\ timeline[i].numberOfSamples >= 1

\* C15: IsValid returns false for every timeline whose ids are not 0,1,2,...
\* in order, whose chunk ids decrease or step by more than 1, or which holds
\* a sequence without samples; constructing a BlockRandomizer on such a
\* timeline ends in a fatal error, not in a randomizer.
C15_TimelineValidation ==
    /\ IsValid(deserializer.timeline) => WellFormed(deserializer.timeline)
    /\ (hist.constructed /\ ~WellFormed(deserializer.timeline)) => fault # "none"

\* every sequence of the corpus timeline has exactly one sample
AllSingle == \A i \in DOMAIN deserializer.timeline : deserializer.timeline[i].numberOfSamples = 1

\* C16: the frame-mode flag computed at construction is true iff every
\* sequence has exactly one sample; if some sequence has another number of
\* samples, StartEpoch fails fatally and no GetNextSequences call returns
\* data.
C16_FrameModeRefusal ==
    /\ (hist.constructed /\ fault = "none") => (randomizer.m_frameMode <=> AllSingle)
    /\ (hist.started /\ ~AllSingle) => fault # "none"
    /\ ~AllSingle => Size(out.originalIds) = 0

\* C17: a MeanTransformer initialized through Initialize with a non-empty
\* meanFile whose image has the shape of the input turns an input equal to
\* that image into an all-zero buffer; with an empty meanFile it leaves the
\* buffer unchanged.
C17_MeanSubtraction ==
    (driver.call = "MeanTransformer" /\ out.op = "Apply") =>
        /\ (driver.config.meanFile # "" /\ driver.sample.data = driver.file.data) =>
               \A k \in DOMAIN samples[1].data : samples[1].data[k] = 0
        /\ driver.config.meanFile = "" => samples[1].data = driver.sample.data

\* floor(min(crow, ccol) * cropRatio) of the call, in exact arithmetic
ExactCropSize ==
    IF driver.cropRatio.e >= 0
    THEN Min({driver.crow, driver.ccol}) * driver.cropRatio.m * 2 ^ driver.cropRatio.e
    ELSE (Min({driver.crow, driver.ccol}) * driver.cropRatio.m) \div 2 ^ (0 - driver.cropRatio.e)

\* the rectangle is a square of side S at offsets inside the image, the
\* center crop at ((ccol - S) div 2, (crow - S) div 2)
SquareOfSide(rect, S) ==
    /\ rect.width = S /\ rect.height = S
    /\ driver.type = "Center" =>
           (rect.x = (driver.ccol - S) \div 2 /\ rect.y = (driver.crow - S) \div 2)
    /\ 0 <= rect.x /\ rect.x <= driver.ccol - S
    /\ 0 <= rect.y /\ rect.y <= driver.crow - S

\* C18: for rows, cols >= 1 and a ratio in (0, 1], GetCropRect returns the
\* square of side S = floor(min(rows, cols) * ratio), for cropType center at
\* offsets ((cols - S) div 2, (rows - S) div 2), for cropType random at
\* offsets in [0, cols - S] x [0, rows - S]; the square lies inside the image.
C18_CenterCropGeometry ==
    out.op = "GetCropRect" => SquareOfSide(out.rect, ExactCropSize)

\* C18 with the side the double product gives: S is min(rows, cols) * ratio
\* rounded to the nearest double and then truncated, which is
\* floor(min(rows, cols) * ratio) or one more, and never more than
\* min(rows, cols); ratio 0.5 on 100 rows and 200 columns gives the square
\* of side 50 at (75, 25).
C18_RoundedCropSize ==
    out.op = "GetCropRect" =>
        /\ SquareOfSide(out.rect, out.rect.width)
        /\ out.rect.width \in {ExactCropSize, ExactCropSize + 1}
        /\ out.rect.width <= Min({driver.crow, driver.ccol})
        /\ (BitLength(Min({driver.crow, driver.ccol}) * driver.cropRatio.m) <= MantissaBits) =>
               out.rect.width = ExactCropSize
        /\ (driver.crow = 100 /\ driver.ccol = 200 /\ driver.type = "Center") =>
               out.rect = [x |-> 75, y |-> 25, width |-> 50, height |-> 50]

\* a center crop off both borders, by different amounts
C18_Witness ==
    /\ out.op = "GetCropRect"
    /\ driver.type = "Center"
    /\ out.rect.width >= 2
    /\ out.rect.x >= 1 /\ out.rect.y >= 1 /\ out.rect.x # out.rect.y

\* the string s is one of the strings of the set, in any case of letters
AnyCase(s, strings) == [k \in DOMAIN s |-> ToLower(s[k])] \in strings

\* C19: a CropTransformer whose jitterType is uniLength or uniArea is
\* initialized without error, ParseJitterType returning the enum value, and
\* its first Apply raises a fatal error; an unknown jitterType or cropType
\* is rejected during initialization.
C19_UnimplementedJitter ==
    (driver.call = "CropTransformer" /\ transformer.status # "new") =>
        /\ (/\ AnyCase(driver.config.jitterType,
                       {<<"u", "n", "i", "l", "e", "n", "g", "t", "h">>,
                        <<"u", "n", "i", "a", "r", "e", "a">>})
            /\ AnyCase(driver.config.cropType,
                       {<<>>, <<"c", "e", "n", "t", "e", "r">>, <<"r", "a", "n", "d", "o", "m">>})
            /\ driver.config.cropRatio \in
                   {r \in {Double(1, 0 - 1), Double(3, 0 - 2), Double(1, 0)}
                              \X {Double(1, 0 - 1), Double(3, 0 - 2), Double(1, 0)} :
                       Difference(r[1], r[2]) <= 0}) =>
               /\ transformer.status = "ok"
               /\ transformer.m_jitterType \in {"UniLength", "UniArea"}
               /\ hist.applied = 0 => fault = "none"
               /\ hist.applied >= 1 => (fault = "RuntimeError" /\ out.status = "RuntimeError")
        /\ (\/ ~AnyCase(driver.config.jitterType,
                        {<<>>, <<"n", "o", "n", "e">>, <<"u", "n", "i", "r", "a", "t", "i", "o">>,
                         <<"u", "n", "i", "l", "e", "n", "g", "t", "h">>,
                         <<"u", "n", "i", "a", "r", "e", "a">>})
            \/ ~AnyCase(driver.config.cropType,
                        {<<>>, <<"c", "e", "n", "t", "e", "r">>, <<"r", "a", "n", "d", "o", "m">>})) =>
               /\ transformer.status = "RuntimeError"
               /\ fault = "RuntimeError"
               /\ hist.applied = 0

\* the first Apply of a transformer configured with UniLength failed
C19_Witness ==
    /\ driver.call = "CropTransformer"
    /\ driver.config.jitterType = <<"U", "n", "i", "L", "e", "n", "g", "t", "h">>
    /\ transformer.status = "ok"
    /\ hist.applied = 1
    /\ fault = "RuntimeError"


\* a batch the parallel loop has run on, every thread having left the loop
LoopDone ==
    /\ hist.phase = "loop"
    /\ hist.next = Size(samples.m_data)
    /\ \A t \in DOMAIN workers : workers[t].pc = "idle"

\* the sample i of the batch after the loop is a transform of the sample i
\* that came in: the crop of its image under some state of a generator
TransformOf(i) ==
    /\ \E state \in 0 .. 2 ^ MtBits - 1 :
          samples.m_data[i][0] =
              ApplyToSequence(transformer, samples.input[i][0], [state |-> state]).sequence
    /\ \A j \in 1 .. NumStreams - 1 : samples.m_data[i][j] = samples.input[i][j]

\* C13: in every batch and under every interleaving of the threads, the
\* sample i that leaves the parallel loop is the transform of the sample i
\* that entered it, and ReadMinibatch puts the bytes of sample i of stream j
\* at the offset i * (sample elements * element size) of the buffer of
\* stream j, so that column i of every stream is the i-th sequence that
\* came from upstream.
C13_OrderPreservation ==
    /\ hist.phase = "loop" =>
          \A i \in DOMAIN samples.m_data :
              /\ \A j \in 0 .. NumStreams - 1 : samples.m_data[i][j].id = samples.input[i][j].id
              /\ i \in hist.done => TransformOf(i)
    /\ out.op = "ReadMinibatch" =>
          \A i \in DOMAIN samples.m_data : \A j \in 0 .. NumStreams - 1 :
              /\ samples.m_data[i][j].id = (hist.batches - 1) * MaxMbSize + i
              /\ \A k \in 0 .. Streams[j].numElements * GetSizeByType(Streams[j].elementType) - 1 :
                    packer.m_streamBuffers[j][i * Streams[j].numElements
                                                * GetSizeByType(Streams[j].elementType) + k]
                        = [data |-> samples.m_data[i][j], byte |-> k]

\* two threads finished the samples of a batch out of order and the batch
\* was packed
C13_Witness ==
    /\ out.op = "ReadMinibatch"
    /\ Size(workers) = 2
    /\ hist.overtaken
    /\ hist.done = {0, 1}
    /\ ~samples.m_endOfEpoch
    /\ transformer.m_cropType = "Random"

\* C14: whatever the interleaving of the threads that pop a generator from
\* the pool, use it and push it back, every sample of a batch, and of every
\* later batch, is transformed as it is when one thread runs the loop.
C14_SchedulingIndependence ==
    LoopDone => samples.m_data = hist.oneThread.data


\* C21: in the tables of every sweep the window bounds never move back from
\* one randomized chunk to the next, and 0 <= windowbegin(c) and
\* windowend(c) <= numChunks for every c, so that the table, which has the
\* sentinel at numChunks, is read inside its range.
C21_WindowMonotonicity ==
    WindowsComputed =>
        /\ \A c \in 1 .. randomizer.m_numChunks - 1 :
              /\ randomizer.m_randomizedChunks[c - 1].windowbegin
                     <= randomizer.m_randomizedChunks[c].windowbegin
              /\ randomizer.m_randomizedChunks[c - 1].windowend
                     <= randomizer.m_randomizedChunks[c].windowend
        /\ \A c \in 0 .. randomizer.m_numChunks - 1 :
              /\ 0 <= randomizer.m_randomizedChunks[c].windowbegin
              /\ randomizer.m_randomizedChunks[c].windowend <= randomizer.m_numChunks
              /\ randomizer.m_randomizedChunks[c].windowbegin \in DOMAIN randomizer.m_randomizedChunks
              /\ randomizer.m_randomizedChunks[c].windowend \in DOMAIN randomizer.m_randomizedChunks

\* tables of a later sweep in which both bounds moved between two
\* neighbouring chunks
C21_Witness ==
    /\ WindowsComputed
    /\ randomizer.m_sweep > 0
    /\ \E c \in 1 .. randomizer.m_numChunks - 1 :
           /\ randomizer.m_randomizedChunks[c - 1].windowbegin
                  < randomizer.m_randomizedChunks[c].windowbegin
           /\ randomizer.m_randomizedChunks[c - 1].windowend
                  < randomizer.m_randomizedChunks[c].windowend


\* the cursor stands at the end of the sweep and the epoch has budget left
SweepExhausted ==
    /\ randomizer.m_sequencePositionInSweep >= randomizer.m_numSequences
    /\ randomizer.m_samplePositionInEpoch < randomizer.m_epochSize

\* C22: after StartEpoch and after every GetNextSequences call,
\* sweepStartInSamples is sweep * numSamples, the tables and the randomized
\* timeline in memory are those of the current sweep index, and the cursor
\* is at most numSequences; and when the cursor stands at the end of the
\* sweep with budget left, the next advance adds 1 to sweep and numSamples
\* to sweepStartInSamples, randomizes for that sweep and sets the cursor to 0.
C22_SweepBookkeeping ==
    Randomized =>
        /\ randomizer.m_sweepStartInSamples
               = (randomizer.m_sweep * randomizer.m_numSamples) % SIZE_MOD
        /\ randomizer.m_randomizedChunks[0].samplePositionStart = randomizer.m_sweepStartInSamples
        /\ Shuffle(randomizer) = Shuffle(RandomizedFor(randomizer.m_sweep))
        /\ randomizer.m_sequencePositionInSweep <= randomizer.m_numSequences
        /\ (SweepExhausted /\ RolledOver.status = "ok") =>
               /\ RolledOver.rz.m_sweep = randomizer.m_sweep + 1
               /\ RolledOver.rz.m_sweepStartInSamples
                      = randomizer.m_sweepStartInSamples + randomizer.m_numSamples
               /\ Shuffle(RolledOver.rz) = Shuffle(RandomizedFor(randomizer.m_sweep + 1))
               /\ RolledOver.rz.m_sequencePositionInSweep = 0

\* a call of an epoch that started inside a sweep has left the cursor at
\* the end of that sweep with budget left, on a corpus of several chunks
C22_Witness ==
    /\ Randomized
    /\ hist.calls > 0
    /\ SweepExhausted
    /\ RolledOver.status = "ok"
    /\ hist.config.index > 0
    /\ randomizer.m_numChunks > 1


\* the threads that hold a generator: between pop_or_create and push
Holders == {t \in DOMAIN workers : workers[t].pc = "apply"}

\* C23: with T threads in the loop of a transformer, no generator is held by
\* two threads at once nor by a thread while it is in the pool, the
\* generators in existence, pooled and held, are at most T after any number
\* of batches, and once a batch is complete every generator created is back
\* in the pool.
C23_PoolBound ==
    /\ \A t, u \in Holders : workers[t].ptr = workers[u].ptr => t = u
    /\ \A t \in Holders : \A k \in DOMAIN hist.pooled : hist.pooled[k] # workers[t].ptr
    /\ \A k, l \in DOMAIN hist.pooled : hist.pooled[k] = hist.pooled[l] => k = l
    /\ Len(hist.pooled) = Len(transformer.m_rngs)
    /\ Len(transformer.m_rngs) + Cardinality(Holders) = hist.created
    /\ hist.created <= Size(workers)
    /\ (LoopDone \/ hist.phase # "loop") => Len(transformer.m_rngs) = hist.created

\* a later batch in which two threads hold the two generators in
\* existence, one of them at least popped from the pool
C23_Witness ==
    /\ hist.batches > 0
    /\ hist.phase = "loop"
    /\ Cardinality(Holders) = 2
    /\ hist.created = 2


\* C29: the buffer of stream j is allocated at construction with
\* minibatchSize * sampleElements(output stream j) * elementSize bytes and is
\* the same buffer in every ReadMinibatch; the bytes written for sample i of
\* stream j, from i * dimensions on, dimensions taken from the input stream
\* j, lie inside it; and the dataSize reported is at most its size.
C29_PackerWritesInBounds ==
    \A j \in 0 .. NumStreams - 1 :
        /\ Size(packer.m_streamBuffers[j])
               = packer.m_mbSize * packer.m_outputStreams[j].numElements
                     * GetSizeByType(packer.m_outputStreams[j].elementType)
        /\ out.op = "ReadMinibatch" =>
              /\ \A i \in DOMAIN samples.m_data :
                    (i + 1) * packer.m_inputStreams[j].numElements
                            * GetSizeByType(packer.m_inputStreams[j].elementType)
                        <= Size(packer.m_streamBuffers[j])
              /\ \A s \in DOMAIN out.m.minibatch :
                    out.m.minibatch[s].dataSize <= Size(packer.m_streamBuffers[s])


\* width * height * channels, as a product of integers, is 0 or more than
\* limit
ProductOutside(config, limit) ==
    \/ config.width = 0 \/ config.height = 0 \/ config.channels = 0
    \/ config.width > limit \div config.height
    \/ config.channels > limit \div (config.width * config.height)

\* C24: ScaleTransformer::InitFromConfig ends in RuntimeError for every
\* width, height and channels whose product is 0 or more than half of the
\* range of size_t, and accepts the others, those whose product lies in
\* 1 .. SIZE_MAX / 2.
C24_ScaleDimensionCheck ==
    (driver.call = "ScaleTransformer" /\ out.op = "Initialize") =>
        (transformer.status = "RuntimeError" <=> ProductOutside(driver.config, SIZE_MAX \div 2))


\* C28: every sample that ReadMinibatch copied into the minibatch it returns
\* went through Apply of each of the NumTransformers transformers of the
\* chain exactly once, the samples that come with endOfEpoch included
C28_TransformCoverage ==
    (out.op = "get" /\ out.read /\ Size(out.m.minibatch) # 0) =>
        \A c \in 0 .. out.m.minibatch[0].numCols - 1 :
            out.m.minibatch[0].data[c].applied = NumTransformers


\* C25: when GetNextSequences calls GetSequencesById, every sequence it asks
\* for lies in an original chunk that the deserializer holds: RequireChunk
\* was called on it and ReleaseChunk was not called since
C25_ChunkAvailability ==
    (out.op = "get" /\ out.read /\ Size(out.originalIds) # 0) =>
        \A i \in DOMAIN out.originalIds :
            deserializer.timeline[out.originalIds[i]].chunkId \in deserializer.required


\* C26: in the tables RandomizeChunks built for a sweep, every randomized
\* chunk lies in its own window: windowbegin <= c < windowend, whatever the
\* chunk sizes and the randomization range
C26_SelfContainingWindows ==
    \A c \in DOMAIN randomizer.m_randomizedChunks :
        c < randomizer.m_numChunks =>
            /\ randomizer.m_randomizedChunks[c].windowbegin <= c
            /\ c < randomizer.m_randomizedChunks[c].windowend


\* the retry loop of Randomize() was left at every position: no pick from
\* an empty range, no position where the picks never pass the two tests
ShuffleExited == fault \notin {"hang", "trap"}

\* a GetNextSequences call of an epoch that has not ended either ends it or
\* moves m_samplePositionInEpoch forward, not beyond m_epochSize
EpochAdvanced ==
    (out'.op = "get" /\ ~shim.m_endOfEpoch /\ fault' = "none") =>
        \/ shim'.m_endOfEpoch
        \/ /\ randomizer.m_samplePositionInEpoch < randomizer'.m_samplePositionInEpoch
           /\ randomizer'.m_samplePositionInEpoch <= randomizer'.m_epochSize

\* C27: for every timeline, every randomization range and every sweep the
\* retry loop of the sequence shuffle exits at every position, so that
\* Randomize() returns, and every epoch reaches its end after finitely many
\* GetNextSequences calls
C27_ShuffleTermination == [][ShuffleExited' /\ EpochAdvanced]_vars

====
